---- MODULE Spec2Model ----
(***************************************************************************)
(* Stream Audio Service: the session client (openai_realtime_client.py),   *)
(* the enrichment queue (transcript_enricher.py), the capture engine's     *)
(* inbound queue (audio_streamer.py) and the orchestrator callbacks        *)
(* (service.py) as state machines.                                         *)
(*                                                                         *)
(* Texts are sequences of one-character strings.  Times are integers in    *)
(* tenths of a second.  Audio durations are counted in bytes of 24 kHz     *)
(* PCM-16, i.e. in 1/48000 s, the unit send_audio_chunk divides by.        *)
(***************************************************************************)
EXTENDS Integers, Sequences, FiniteSets, TLC

\* ------------------------------------------------------------------ bounds

\* Messages of the remote session handled in one behaviour.
MaxMessages == 2

\* Utterances that reach the enrichment pipeline in one behaviour.
MaxUtterances == 2

\* send_audio_chunk coroutines scheduled in one behaviour.
MaxChunks == 5

\* Capacity of the inbound audio queue; stands for queue.Queue(maxsize=500).
MaxQueue == 2

\* Blocks the device delivers in one behaviour.
MaxBlocks == 4

\* Longest text given to _is_duplicate, as last_transcript or as candidate.
MaxTextLen == 5

\* WebSocket clients that connect to the broadcast server in a behaviour.
MaxClients == 1

\* Heartbeats the broadcast server sends in a behaviour.
MaxHeartbeats == 1

\* Most /set-device and /shutdown requests in a behaviour.
MaxRequests == 2

\* Most clients of the broadcast server where one pass sends to several.
MaxPassClients == 2

\* Most events put on the broadcast queue where one pass sends to several.
MaxPassEvents == 2
\* The transcripts the session sends while the service is started and stopped
MaxStopTranscripts == 1

\* Most transcripts of a session whose enriched lines are told apart.
MaxLines == 9

\* Most items waiting in the enrichment queue in such a session.
MaxPending == 1

\* Longest array given to _resample, in samples.
MaxBlockLen == 7

\* Highest sample rate given to _resample; the rates are 1..MaxRate.
MaxRate == 4

\* Samples in a block of the capture queue where the blocks' samples are told apart.
BlockSize == 3

\* ------------------------------------------------------- program constants

\* TranscriptEnricher.max_history
max_history == 8

\* FORCE_COMMIT_INTERVAL_S = 3.0 (config.py), in 1/48000 s: 3.0 * 48000
ForceCommitInterval == 144000

\* max_retry in DesktopAudioStreamer._process_worker
max_retry == 5

\* DesktopAudioStreamer.db_threshold
db_threshold == -50

\* len(pcm_bytes) of the chunks _run_stream sends: send_interval_s = 1.2 s of
\* audio, resampled to 24 kHz, two bytes a sample: 1.2 * 24000 * 2. The float
\* sums of its duration (1.2, 2.4, 3.5999999999999996, 4.8, ...) compare with 3.0
\* as the integer sums of the lengths compare with ForceCommitInterval.
SendChunkBytes == 57600

\* ------------------------------------------------------------------- state

VARIABLES
    \* OpenAIRealtimeClient
    ws,                     \* self.ws: "None" or "ws", the connection object
    sock,                   \* the connection's state: "none" | "open" | "closing" | "closed"
    closing,                \* self._closing
    conn_pc,                \* position of the connect() coroutine
    disc_pc,                \* position of the disconnect() coroutine
    sends,                  \* the send_audio_chunk coroutines scheduled on the loop, in order
    wire,                   \* the messages written to the connection, in order
    audio_accumulated,      \* self.audio_accumulated_sec, in 1/48000 s
    last_transcript,        \* self.last_transcript
    handled,                \* what the last _handle_message call was given and did
    applied,                \* the last application of a pure function: arguments and result
    \* StreamAudioService / WebSocketServer
    message_queue,          \* ws_server.message_queue (unbounded queue.Queue)
    whisper_count,          \* self._whisper_count; the n-th transcript gets the n-th fresh uuid
    whisper_call,           \* the _on_whisper_transcript call in progress: what it was given and what it has left to do
    \* TranscriptEnricher
    enricher_running,       \* self.running
    enricher_queue,         \* self._queue
    enricher_threads,       \* the "Enricher" threads start() has created: position and held item
    recent_transcripts,     \* self.recent_transcripts
    known_speakers,         \* self.known_speakers: lowercase speaker key -> label
    clock,                  \* time.time() - session_start, index into ClockValues
    enqueued,               \* history: every item enrich() appended, in order
    remote_log,             \* history: ids of the items a remote call was made for, in order
    remote_failed,          \* history: ids of the items whose remote call raised
    \* DesktopAudioStreamer
    streamer_running,       \* self.running
    proc_pc,                \* position of the _process_worker thread
    stop_pc,                \* position of the thread inside DesktopAudioStreamer.stop
    queue,                  \* self.queue, a queue.Queue(maxsize)
    cb,                     \* the device callback in progress: position and block
    pushed,                 \* history: blocks whose callback reached put_nowait, in order
    dropped,                \* history: blocks a callback gave up on
    drained,                \* history: blocks taken off the queue by the drain loop or by stop()
    retry,                  \* _process_worker's local `retry`
    attempts,               \* history: the number of _run_stream calls
    audio_buf,              \* _run_stream's local `audio_buf`, as a sequence of int16 samples
    gate_log,               \* history: every chunk _run_stream cut off the buffer, and whether it was sent
    since_send,             \* _run_stream: time.time() - last_send, in tenths of a second, up to send_interval_s
    stream_pc,              \* where _run_stream's loop is: "drain" (lines 177-183) | "sleep" (line 212)
    \* StreamAudioService.run / stop
    run_pc,                 \* position of the main thread inside StreamAudioService.run
    hub_state,              \* the hub thread and its loop: "none" | "started" | "stopped"
    ws_server_state,        \* the broadcast server: "none" | "started" | "stopped"
    svc_stop_pc,            \* position of the thread inside StreamAudioService.stop
    stop_raised,            \* history: the stop steps that raised
    \* WebSocketServer
    connected_clients,      \* self.connected_clients
    client_conns,           \* per client, its connection: "none" | "open" | "closed"
    delivered,              \* per client, the messages written to its connection, in order
    fanouts,                \* the _do_broadcast call in progress of the queue processor and of the heartbeat
    fanned,                 \* history: every _do_broadcast call, with the clients it copied
    joined,                 \* history: per client, the number of _do_broadcast calls made when it connected
    hb_slept,               \* _heartbeat: how long its asyncio.sleep(5) has lasted, in tenths of a second
    \* hot-swap: the engines swap_device creates, next to the one __init__ created
    engines,                \* every DesktopAudioStreamer created, in order
    loops,                  \* every network worker started: its event loop and its connect()
    streamer_ref,           \* self.streamer, an index into engines
    http_threads,              \* the threads http_control starts for /set-device and /shutdown
    shutting_down,          \* self._shutting_down
    shutdown_lock,          \* self._shutdown_lock: the caller of stop() that holds it, or 0
    teardown_log            \* history: every component stop() that StreamAudioService.stop called, and the caller

connVars     == <<ws, sock, closing, conn_pc, disc_pc>>
sendVars     == <<sends, wire, audio_accumulated>>
msgVars      == <<last_transcript, handled>>
serviceVars  == <<message_queue, whisper_count, whisper_call>>
enricherVars == <<enricher_running, enricher_queue, enricher_threads, recent_transcripts, known_speakers,
                  clock, enqueued, remote_log, remote_failed>>
streamerVars == <<streamer_running, proc_pc, stop_pc, queue, cb, pushed, dropped, drained>>
captureVars  == <<retry, attempts, audio_buf, gate_log, since_send, stream_pc>>
orchVars     == <<run_pc, hub_state, ws_server_state, svc_stop_pc, stop_raised>>
serverVars   == <<connected_clients, client_conns, delivered, fanouts, fanned, joined, hb_slept>>
swapVars     == <<engines, loops, streamer_ref, http_threads, shutting_down,
                  shutdown_lock, teardown_log>>
vars == <<connVars, sendVars, msgVars, applied, serviceVars, enricherVars, streamerVars,
          captureVars, orchVars, serverVars, swapVars>>

\* -------------------------------------------------------------------- text

None == <<"None">>          \* Python's None where a text is expected
Truthy(x) == x /= None /\ x /= <<>>

\* ord() of the characters the modelled transcripts are made of
Ord(c) == CASE c = " " -> 32
            [] c = "I" -> 73
            [] c = "a" -> 97
            [] c = "b" -> 98
            [] c = "c" -> 99
            [] c = "e" -> 233      \* stands for a non-ASCII letter such as U+00E9

IsSpace(c) == c = " "

RECURSIVE LStrip(_)
LStrip(s) == IF s /= <<>> /\ IsSpace(Head(s)) THEN LStrip(Tail(s)) ELSE s

RECURSIVE RStrip(_)
RStrip(s) == IF s /= <<>> /\ IsSpace(s[Len(s)]) THEN RStrip(SubSeq(s, 1, Len(s) - 1)) ELSE s

\* str.strip()
Strip(s) == RStrip(LStrip(s))

\* str.endswith
EndsWith(s, t) == Len(t) <= Len(s) /\ SubSeq(s, Len(s) - Len(t) + 1, Len(s)) = t

Digit(d) == CASE d = 0 -> "0" [] d = 1 -> "1" [] d = 2 -> "2" [] d = 3 -> "3" [] d = 4 -> "4"
              [] d = 5 -> "5" [] d = 6 -> "6" [] d = 7 -> "7" [] d = 8 -> "8" [] d = 9 -> "9"

\* str(n) of an integer n >= 0
RECURSIVE Str(_)
Str(n) == IF n < 10 THEN <<Digit(n)>> ELSE Str(n \div 10) \o <<Digit(n % 10)>>

\* f"{s:02d}"
Fmt02d(s) == IF s < 10 THEN <<"0">> \o Str(s) ELSE Str(s)

\* TranscriptEnricher._fmt_ts; the argument is in tenths of a second, int() drops the fraction
FmtTsNoPad(t) == LET secs == t \div 10 IN Str(secs \div 60) \o <<":">> \o Str(secs % 60)
FmtTs(t) == LET secs == t \div 10
                m    == secs \div 60
                s    == secs % 60
            IN  Str(m) \o <<":">> \o Fmt02d(s)

\* f"[{ts}] {item['text']}"
FallbackLine(item) == <<"[">> \o FmtTs(item.timestamp) \o <<"]", " ">> \o item.text

\* ---------------------------------------------------------- session client

\* OpenAIRealtimeClient._filter_transcript: ascii_chars / len(text) < 0.7 is
\* ascii_chars * 10 < 7 * len(text) on integers.
FilterTranscript(text) ==
    IF text = <<>> THEN None
    ELSE LET ascii_chars == Cardinality({i \in 1..Len(text) : Ord(text[i]) < 128})
         IN  IF Len(text) > 0 /\ ascii_chars * 10 < 7 * Len(text) THEN None ELSE text

SetMax(S) == CHOOSE x \in S : \A y \in S : y <= x

\* difflib's j2len: the length of the run of equal elements that ends at a[i], b[j]
RECURSIVE RunLen(_, _, _, _)
RunLen(a, b, i, j) ==
    IF i < 1 \/ j < 1 THEN 0
    ELSE IF a[i] = b[j] THEN 1 + RunLen(a, b, i - 1, j - 1) ELSE 0

\* SequenceMatcher(None, a, b).find_longest_match(0, len(a), 0, len(b)).size
FindLongestMatchSize(a, b) ==
    SetMax({0} \cup {RunLen(a, b, i, j) : i \in 1..Len(a), j \in 1..Len(b)})

\* OpenAIRealtimeClient._is_duplicate: match.size > len(new_text) * 0.8 is
\* size * 10 > len * 8 on integers.
IsDuplicateAtLeast(last, new_text) ==
    IF new_text = <<>> \/ Len(new_text) < 2 THEN FALSE
    ELSE IF new_text = last THEN TRUE
    ELSE IF EndsWith(last, new_text) THEN TRUE
    ELSE FindLongestMatchSize(last, new_text) * 10 >= Len(new_text) * 8
IsDuplicate(last, new_text) ==
    IF new_text = <<>> \/ Len(new_text) < 2 THEN FALSE
    ELSE IF new_text = last THEN TRUE
    ELSE IF EndsWith(last, new_text) THEN TRUE
    ELSE FindLongestMatchSize(last, new_text) * 10 > Len(new_text) * 8

\* ------------------------------------------------- orchestrator callbacks

\* WebSocketServer.message_queue = queue.Queue(): maxsize is 0, and a queue
\* whose maxsize is not positive is never full
outbound_maxsize == 0

\* WebSocketServer.broadcast: put_nowait, which raises Full on a full queue,
\* and `except queue.Full: pass`
Broadcast(q, event) ==
    IF outbound_maxsize > 0 /\ Len(q) >= outbound_maxsize THEN q ELSE Append(q, event)

\* TranscriptEnricher.enrich, as the new value of self._queue
Enrich(q, raw_transcript, transcript_id, timestamp) ==
    IF raw_transcript = <<>> \/ Len(Strip(raw_transcript)) < 2 THEN q
    ELSE Append(q, [text |-> raw_transcript, timestamp |-> timestamp, id |-> transcript_id])

ClockValues == <<25, 36075>>      \* 2.5 s and 1 h 7.5 s since session_start
Elapsed == ClockValues[clock]

\* No _on_whisper_transcript call is in progress
NoCall == [text |-> <<>>, id |-> 0, left |-> <<>>]

\* StreamAudioService._on_whisper_transcript (ENABLE_ENRICHMENT = True: self.enricher is set)
OnWhisperTranscript(raw_text) ==
    LET tid == whisper_count + 1
    IN  /\ whisper_count' = whisper_count + 1
        /\ message_queue' = Broadcast(message_queue,
                               [type |-> "transcript_raw", id |-> tid, text |-> raw_text])
        /\ enricher_queue' = Enrich(enricher_queue, raw_text, tid, Elapsed)
        /\ enqueued' = Enrich(enqueued, raw_text, tid, Elapsed)
        /\ whisper_call' = whisper_call

\* StreamAudioService._on_openai_error
OnOpenAIError(msg) ==
    /\ message_queue' = Broadcast(message_queue, [type |-> "error", id |-> 0, text |-> msg])
    /\ UNCHANGED <<whisper_count, whisper_call, enricher_queue, enqueued>>

\* StreamAudioService._on_enriched_transcript, as the new value of the broadcast queue
OnEnrichedTranscript(q, enriched_text, transcript_id) ==
    Broadcast(q, [type |-> "transcript_enriched", id |-> transcript_id, text |-> enriched_text])

\* ------------------------------------------------- session message handling

\* str.__contains__: p in s
Contains(s, p) == \E i \in 1..(Len(s) - Len(p) + 1) : SubSeq(s, i, i + Len(p) - 1) = p

BufferTooSmall == <<"b", "u", "f", "f", "e", "r", " ", "t", "o", "o", " ", "s", "m", "a", "l", "l">>
BufferOnlyHas  == <<"b", "u", "f", "f", "e", "r", " ", "o", "n", "l", "y", " ", "h", "a", "s">>
UnknownError   == <<"U", "n", "k", "n", "o", "w", "n", " ", "e", "r", "r", "o", "r">>
ApiErrorPrefix == <<"A", "P", "I", " ", "E", "r", "r", "o", "r", ":", " ">>

\* A message of the remote session, after json.loads: its "type", its "transcript"
\* and its error's "message" (None where the key is absent).
Msg(type, transcript, message) == [type |-> type, transcript |-> transcript, message |-> message]

\* lines 140-143: err_msg, with the defaults of the two .get calls
ErrMsg(msg) == IF msg.message = None THEN UnknownError ELSE msg.message

\* line 143: the benign patterns
IsBenignOnlyTooSmall(err_msg) == Contains(err_msg, BufferTooSmall)
IsBenign(err_msg) == Contains(err_msg, BufferTooSmall) \/ Contains(err_msg, BufferOnlyHas)

\* lines 124-127: the value of `cleaned`, None where the outer `if` is not entered
CleanedUnstripped(text) == IF Truthy(text) /\ Truthy(Strip(text)) THEN FilterTranscript(text) ELSE None
Cleaned(text) ==
    IF Truthy(text) /\ Truthy(Strip(text)) THEN FilterTranscript(Strip(text)) ELSE None

\* OpenAIRealtimeClient._handle_message, called by connect()'s `async for` for one
\* message; it holds no await, so it runs to its end once entered. on_transcript
\* and on_error are the orchestrator's callbacks.
HandleMessage(msg) ==
    /\ conn_pc = "loop"
    /\ sock = "open"
    /\ ~closing
    /\ LET snapshot == [n |-> handled.n + 1, msg |-> msg, prev_last |-> last_transcript,
                        mq_before |-> Len(message_queue),
                        on_transcript |-> <<>>, on_error |-> <<>>]
       IN
       IF msg.type = "conversation.item.input_audio_transcription.completed" THEN
           LET cleaned == Cleaned(msg.transcript)
           IN  /\ audio_accumulated' = 0
               /\ IF Truthy(cleaned) /\ ~IsDuplicate(last_transcript, cleaned)
                  THEN /\ last_transcript' = cleaned
                       /\ OnWhisperTranscript(cleaned)
                       /\ handled' = [snapshot EXCEPT !.on_transcript = <<cleaned>>]
                  ELSE /\ UNCHANGED <<last_transcript, message_queue, whisper_count, whisper_call,
                                      enricher_queue, enqueued>>
                       /\ handled' = snapshot
       ELSE IF msg.type \in {"input_audio_buffer.speech_stopped", "input_audio_buffer.committed"} THEN
           /\ audio_accumulated' = 0
           /\ handled' = snapshot
           /\ UNCHANGED <<last_transcript, message_queue, whisper_count, whisper_call, enricher_queue, enqueued>>
       ELSE IF msg.type = "error" THEN
           /\ IF IsBenign(ErrMsg(msg))
              THEN /\ handled' = snapshot
                   /\ UNCHANGED <<message_queue, whisper_count, whisper_call, enricher_queue, enqueued>>
              ELSE /\ OnOpenAIError(ApiErrorPrefix \o ErrMsg(msg))
                   /\ handled' = [snapshot EXCEPT !.on_error = <<ApiErrorPrefix \o ErrMsg(msg)>>]
           /\ UNCHANGED <<audio_accumulated, last_transcript>>
       ELSE
           /\ handled' = snapshot
           /\ UNCHANGED <<audio_accumulated, last_transcript, message_queue, whisper_count, whisper_call,
                          enricher_queue, enqueued>>
    /\ UNCHANGED <<connVars, sends, wire, applied, streamerVars>>
    /\ UNCHANGED <<enricher_running, enricher_threads, recent_transcripts, known_speakers, clock,
                   remote_log, remote_failed>>
    /\ UNCHANGED <<captureVars, orchVars, serverVars, swapVars>>

\* -------------------------------------------------------------- connection

ConnectionFailed == <<"C", "o", "n", "n", "e", "c", "t", "i", "o", "n", " ", "f", "a", "i", "l", "e", "d">>

\* OpenAIRealtimeClient.connect, lines 38-39, entered by the streamer's network worker
ConnectStart ==
    /\ conn_pc = "idle"
    /\ proc_pc /= "none"
    /\ closing' = FALSE
    /\ conn_pc' = "connecting"
    /\ UNCHANGED <<ws, sock, disc_pc, sendVars, msgVars, applied, serviceVars,
                   enricherVars, streamerVars>>
    /\ UNCHANGED <<captureVars, orchVars, serverVars, swapVars>>

\* connect, lines 48-51: the socket opens, self.ws is set and _send_session_update
\* writes session.update before anything else can run on the loop
ConnectEstablished ==
    /\ conn_pc = "connecting"
    /\ ws' = "ws"
    /\ sock' = "open"
    /\ wire' = Append(wire, [type |-> "session.update", len |-> 0, by |-> 0])
    /\ conn_pc' = "loop"
    /\ UNCHANGED <<closing, disc_pc, sends, audio_accumulated, msgVars, applied,
                   serviceVars, enricherVars, streamerVars>>
    /\ UNCHANGED <<captureVars, orchVars, serverVars, swapVars>>

\* connect, lines 60-66: websockets.connect raises
ConnectFailed ==
    /\ conn_pc = "connecting"
    /\ IF ~closing THEN OnOpenAIError(ConnectionFailed)
                   ELSE UNCHANGED <<message_queue, whisper_count, whisper_call, enricher_queue, enqueued>>
    /\ ws' = "None"
    /\ conn_pc' = "closed"
    /\ UNCHANGED <<sock, closing, disc_pc, sendVars, msgVars, applied, streamerVars>>
    /\ UNCHANGED <<enricher_running, enricher_threads, recent_transcripts, known_speakers, clock,
                   remote_log, remote_failed>>
    /\ UNCHANGED <<captureVars, orchVars, serverVars, swapVars>>

\* The remote end or the network closes the connection.
RemoteDrop ==
    /\ sock = "open"
    /\ sock' = "closed"
    /\ UNCHANGED <<ws, closing, conn_pc, disc_pc, sendVars, msgVars, applied, serviceVars,
                   enricherVars, streamerVars>>
    /\ UNCHANGED <<captureVars, orchVars, serverVars, swapVars>>

\* connect, lines 53-66: the `async for` ends, because the connection closed
\* (cleanly, or with an error that `except Exception` reports unless closing) or
\* because a message arrived while self._closing; `finally` clears self.ws
ConnectLoopEnds(clean) ==
    /\ conn_pc = "loop"
    /\ closing \/ sock /= "open"
    /\ IF ~clean /\ ~closing /\ sock /= "open"
       THEN OnOpenAIError(ConnectionFailed)
       ELSE UNCHANGED <<message_queue, whisper_count, whisper_call, enricher_queue, enqueued>>
    /\ ws' = "None"
    /\ sock' = "closed"
    /\ conn_pc' = "closed"
    /\ UNCHANGED <<closing, disc_pc, sendVars, msgVars, applied, streamerVars>>
    /\ UNCHANGED <<enricher_running, enricher_threads, recent_transcripts, known_speakers, clock,
                   remote_log, remote_failed>>
    /\ UNCHANGED <<captureVars, orchVars, serverVars, swapVars>>

\* OpenAIRealtimeClient.disconnect up to its await: the flag is set and, if there
\* is a connection, ws.close() puts it in the closing state and sends the close
\* frame before it first suspends
DisconnectStart ==
    /\ disc_pc = "idle"
    /\ stop_pc /= "idle"
    /\ conn_pc /= "idle"
    /\ closing' = TRUE
    /\ IF ws /= "None"
       THEN /\ sock' = IF sock = "open" THEN "closing" ELSE sock
            /\ disc_pc' = "await_close"
       ELSE /\ sock' = sock
            /\ disc_pc' = "done"
    /\ UNCHANGED <<ws, conn_pc, sendVars, msgVars, applied, serviceVars, enricherVars,
                   streamerVars>>
    /\ UNCHANGED <<captureVars, orchVars, serverVars, swapVars>>

\* disconnect, line 75, after ws.close() returned or raised
DisconnectFinish ==
    /\ disc_pc = "await_close"
    /\ ws' = "None"
    /\ sock' = "closed"
    /\ disc_pc' = "done"
    /\ UNCHANGED <<closing, conn_pc, sendVars, msgVars, applied, serviceVars, enricherVars,
                   streamerVars>>
    /\ UNCHANGED <<captureVars, orchVars, serverVars, swapVars>>

\* ---------------------------------------------------------- send_audio_chunk

\* DesktopAudioStreamer._run_stream, lines 200-203: run_coroutine_threadsafe
ScheduleSend(len) ==
    /\ proc_pc = "streaming"
    /\ conn_pc /= "idle"
    /\ Len(sends) < MaxChunks
    /\ sends' = Append(sends, [pc |-> "scheduled", len |-> len, closing_seen |-> "no"])
    /\ UNCHANGED <<connVars, wire, audio_accumulated, msgVars, applied, serviceVars,
                   enricherVars, streamerVars>>
    /\ UNCHANGED <<captureVars, orchVars, serverVars, swapVars>>

\* Whether `await self.ws.send(...)` can write its message: self.ws is a
\* connection and the connection is open. Otherwise the call raises
\* (AttributeError on None, ConnectionClosed on a closing or closed connection).
CanSendUnlessNone == ws /= "None"
CanSend == ws /= "None" /\ sock = "open"

\* send_audio_chunk, lines 152-159: the guard, then the append message is written
\* and the coroutine awaits the send
SendStart(i) ==
    /\ sends[i].pc = "scheduled"
    /\ \A j \in 1..(i - 1) : sends[j].pc /= "scheduled"
    /\ IF ws = "None" \/ closing
       THEN /\ sends' = [sends EXCEPT ![i].pc = "returned",
                                      ![i].closing_seen = IF closing THEN "start" ELSE @]
            /\ wire' = wire
       ELSE IF CanSend
       THEN /\ wire' = Append(wire, [type |-> "input_audio_buffer.append",
                                      len |-> sends[i].len, by |-> i])
            /\ sends' = [sends EXCEPT ![i].pc = "await_append"]
       ELSE /\ sends' = [sends EXCEPT ![i].pc = "returned"]      \* except Exception
            /\ wire' = wire
    /\ UNCHANGED <<connVars, audio_accumulated, msgVars, applied, serviceVars, enricherVars,
                   streamerVars>>
    /\ UNCHANGED <<captureVars, orchVars, serverVars, swapVars>>

\* History kept with a coroutine: whether self._closing was set when it started
\* ("start"), or when it first resumed from an await, the awaited send having
\* returned ("resume_ok") or raised ("resume_raised")
Resumed(seen, ok) ==
    IF closing /\ seen = "no" THEN (IF ok THEN "resume_ok" ELSE "resume_raised") ELSE seen

\* lines 164-166: whether the commit is due
CommitDue(acc) == acc >= ForceCommitInterval

\* send_audio_chunk, lines 161-166: the append send returned (ok) or raised; on
\* return the duration is added and, if the commit is due, the commit message is
\* written and the coroutine awaits that send. A send awaited on a connection that
\* is still open returns.
SendAfterAppend(i, ok) ==
    /\ sends[i].pc = "await_append"
    /\ \A j \in 1..(i - 1) : sends[j].pc /= "await_append"    \* sends return in the order written
    /\ sock = "open" => ok
    /\ IF ~ok
       THEN /\ sends' = [sends EXCEPT ![i].pc = "returned",         \* except Exception
                                      ![i].closing_seen = Resumed(@, FALSE)]
            /\ UNCHANGED <<wire, audio_accumulated>>
       ELSE LET acc == audio_accumulated + sends[i].len
            IN  /\ audio_accumulated' = acc
                /\ IF CommitDue(acc) /\ CanSend
                   THEN /\ wire' = Append(wire, [type |-> "input_audio_buffer.commit",
                                                  len |-> 0, by |-> i])
                        /\ sends' = [sends EXCEPT ![i].pc = "await_commit",
                                                  ![i].closing_seen = Resumed(@, TRUE)]
                   ELSE /\ wire' = wire                           \* not due, or the send raised
                        /\ sends' = [sends EXCEPT ![i].pc = "returned",
                                                  ![i].closing_seen = Resumed(@, TRUE)]
    /\ UNCHANGED <<connVars, msgVars, applied, serviceVars, enricherVars, streamerVars>>
    /\ UNCHANGED <<captureVars, orchVars, serverVars, swapVars>>

\* send_audio_chunk, lines 165-170: the commit send returned (ok) or raised
SendAfterCommit(i, ok) ==
    /\ sends[i].pc = "await_commit"
    /\ sock = "open" => ok
    /\ audio_accumulated' = IF ok THEN 0 ELSE audio_accumulated
    /\ sends' = [sends EXCEPT ![i].pc = "returned", ![i].closing_seen = Resumed(@, ok)]
    /\ UNCHANGED <<connVars, wire, msgVars, applied, serviceVars, enricherVars, streamerVars>>
    /\ UNCHANGED <<captureVars, orchVars, serverVars, swapVars>>

\* ------------------------------------------------------- enrichment queue

NoItem == [text |-> <<>>, timestamp |-> 0, id |-> 0]

\* TranscriptEnricher.start, lines 46-49: one "Enricher" thread, at the top of _loop
StartTwoThreads(threads) ==
    threads \o <<[pc |-> "check", item |-> NoItem, history |-> <<>>], [pc |-> "check", item |-> NoItem, history |-> <<>>]>>
StartThread(threads) == Append(threads, [pc |-> "check", item |-> NoItem, history |-> <<>>])

\* StreamAudioService.run: the components in the order it starts them
RunSteps == <<"hub", "ws_server", "enricher", "streamer">>

\* StreamAudioService.stop: the components in the order it stops them
StopStepsServerFirst == <<"streamer", "ws_server", "enricher", "hub">>
StopSteps == <<"streamer", "enricher", "ws_server", "hub">>

\* The step after `cur` in `steps`, `last` after the last one
StepAfter(steps, cur, last) ==
    LET i == CHOOSE k \in 1..Len(steps) : steps[k] = cur
    IN IF i = Len(steps) THEN last ELSE steps[i + 1]

\* stop: a step that raised is logged by its `except Exception` and the next
\* step is taken all the same
AfterStepPropagating(raised, next) == IF raised THEN "raised" ELSE next
AfterStep(raised, next) == next

\* StreamAudioService.run, lines 102-103: the hub thread is started
HubStart ==
    /\ run_pc = "hub"
    /\ hub_state' = "started"
    /\ run_pc' = StepAfter(RunSteps, "hub", "running")
    /\ UNCHANGED <<ws_server_state, svc_stop_pc, stop_raised>>
    /\ UNCHANGED <<connVars, sendVars, msgVars, applied, serviceVars, enricherVars,
                   streamerVars, captureVars, serverVars, swapVars>>

\* StreamAudioService.run, line 106: ws_server.start()
WsServerStart ==
    /\ run_pc = "ws_server"
    /\ ws_server_state' = "started"
    /\ run_pc' = StepAfter(RunSteps, "ws_server", "running")
    /\ UNCHANGED <<hub_state, svc_stop_pc, stop_raised>>
    /\ UNCHANGED <<connVars, sendVars, msgVars, applied, serviceVars, enricherVars,
                   streamerVars, captureVars, serverVars, swapVars>>

\* StreamAudioService.run, lines 109-110: enricher.start()
EnricherStart ==
    /\ run_pc = "enricher"
    /\ enricher_threads = <<>>
    /\ conn_pc = "idle"
    /\ enricher_running' = TRUE
    /\ clock' = 1                                  \* session_start = time.time()
    /\ enricher_threads' = StartThread(enricher_threads)
    /\ run_pc' = StepAfter(RunSteps, "enricher", "running")
    /\ UNCHANGED <<hub_state, ws_server_state, svc_stop_pc, stop_raised>>
    /\ UNCHANGED <<enricher_queue, recent_transcripts, known_speakers, enqueued, remote_log, remote_failed>>
    /\ UNCHANGED <<connVars, sendVars, msgVars, applied, serviceVars, streamerVars>>
    /\ UNCHANGED <<captureVars, serverVars, swapVars>>

\* Time passes.
Tick ==
    /\ enricher_threads /= <<>>
    /\ clock < Len(ClockValues)
    /\ clock' = clock + 1
    /\ UNCHANGED <<enricher_running, enricher_queue, enricher_threads, recent_transcripts, known_speakers,
                   enqueued, remote_log, remote_failed>>
    /\ UNCHANGED <<connVars, sendVars, msgVars, applied, serviceVars, streamerVars>>
    /\ UNCHANGED <<captureVars, orchVars, serverVars, swapVars>>

\* StreamAudioService.stop, lines 133-137: enricher.stop(), which clears the
\* flag first; the join gives up after 2 s; the call returns or raises
EnricherStop(raised) ==
    /\ svc_stop_pc = "enricher"
    /\ enricher_running' = FALSE
    /\ stop_raised' = IF raised THEN stop_raised \cup {"enricher"} ELSE stop_raised
    /\ svc_stop_pc' = AfterStep(raised, StepAfter(StopSteps, "enricher", "returned"))
    /\ UNCHANGED <<run_pc, hub_state, ws_server_state>>
    /\ UNCHANGED <<enricher_queue, enricher_threads, recent_transcripts, known_speakers, clock,
                   enqueued, remote_log, remote_failed>>
    /\ UNCHANGED <<connVars, sendVars, msgVars, applied, serviceVars, streamerVars>>
    /\ UNCHANGED <<captureVars, serverVars, swapVars>>

\* StreamAudioService.stop, lines 138-141: ws_server.stop(), which clears the
\* server's flag first; the call returns or raises
WsServerStop(raised) ==
    /\ svc_stop_pc = "ws_server"
    /\ ws_server_state' = "stopped"
    /\ stop_raised' = IF raised THEN stop_raised \cup {"ws_server"} ELSE stop_raised
    /\ svc_stop_pc' = AfterStep(raised, StepAfter(StopSteps, "ws_server", "returned"))
    /\ UNCHANGED <<run_pc, hub_state>>
    /\ UNCHANGED <<connVars, sendVars, msgVars, applied, serviceVars, enricherVars,
                   streamerVars, captureVars, serverVars, swapVars>>

\* StreamAudioService.stop, lines 142-144: the hub loop is told to stop, with no
\* `try` around the call: call_soon_threadsafe raises only on a closed loop, and
\* nothing closes the hub loop
HubStop ==
    /\ svc_stop_pc = "hub"
    /\ hub_state' = "stopped"
    /\ svc_stop_pc' = StepAfter(StopSteps, "hub", "returned")
    /\ UNCHANGED <<run_pc, ws_server_state, stop_raised>>
    /\ UNCHANGED <<connVars, sendVars, msgVars, applied, serviceVars, enricherVars,
                   streamerVars, captureVars, serverVars, swapVars>>

\* _loop, line 75: while self.running
WorkerCheck(w) ==
    /\ enricher_threads[w].pc = "check"
    /\ enricher_threads' = [enricher_threads EXCEPT
                               ![w].pc = IF enricher_running THEN "take" ELSE "exit"]
    /\ UNCHANGED <<enricher_running, enricher_queue, recent_transcripts, known_speakers, clock,
                   enqueued, remote_log, remote_failed>>
    /\ UNCHANGED <<connVars, sendVars, msgVars, applied, serviceVars, streamerVars>>
    /\ UNCHANGED <<captureVars, orchVars, serverVars, swapVars>>

\* _enrich, line 112: how many lines of the history the prompt takes
prompt_lines == 5

\* _enrich, lines 109-112: the lines of recent_transcripts put into the prompt
PromptHistory(recent) ==
    IF Len(recent) <= prompt_lines THEN recent
    ELSE SubSeq(recent, Len(recent) - prompt_lines + 1, Len(recent))

\* _loop, line 79: self._queue.pop(0)
Pop0(q) == [item |-> Head(q), rest |-> Tail(q)]

\* _loop, lines 76-82 and 90-91: under the lock take the first item, or sleep;
\* with an item, _enrich builds the prompt and issues the remote call
WorkerTake(w) ==
    /\ enricher_threads[w].pc = "take"
    /\ IF enricher_queue /= <<>>
       THEN /\ enricher_queue' = Pop0(enricher_queue).rest
            /\ enricher_threads' = [enricher_threads EXCEPT
                                       ![w] = [pc |-> "calling", item |-> Pop0(enricher_queue).item,
                                               history |-> PromptHistory(recent_transcripts)]]
            /\ remote_log' = Append(remote_log, Pop0(enricher_queue).item.id)
       ELSE /\ enricher_threads' = [enricher_threads EXCEPT ![w].pc = "check"]
            /\ UNCHANGED <<enricher_queue, remote_log>>
    /\ UNCHANGED <<enricher_running, recent_transcripts, known_speakers, clock, enqueued, remote_failed>>
    /\ UNCHANGED <<connVars, sendVars, msgVars, applied, serviceVars, streamerVars>>
    /\ UNCHANGED <<captureVars, orchVars, serverVars, swapVars>>

\* What the remote enrichment call can do: raise, or return a message content.
Raised == [raised |-> TRUE, content |-> <<>>]
Returned(content) == [raised |-> FALSE, content |-> content]
ResponseContents == {<<" ">>, <<"M", ":", " ", "o", "k", " ">>}
RemoteOutcomes == {Raised} \cup {Returned(c) : c \in ResponseContents}

\* str.lower() of the characters the modelled lines are made of
LowerChar(c) == CASE c = "A" -> "a" [] c = "B" -> "b" [] c = "M" -> "m" [] c = "N" -> "n"
                  [] OTHER -> c
Lower(s) == [i \in 1..Len(s) |-> LowerChar(s[i])]

\* _track_speaker, lines 152-153: the words that make a speaker a described one
SpeakerWords == {<<"f", "e", "m", "a", "l", "e">>, <<"m", "a", "l", "e">>,
                 <<"v", "o", "i", "c", "e">>, <<"s", "i", "n", "g", "e", "r">>,
                 <<"g", "i", "r", "l">>, <<"b", "o", "y">>,
                 <<"w", "o", "m", "a", "n">>, <<"m", "a", "n">>}

IsDigit(c) == c \in {"0", "1", "2", "3", "4", "5", "6", "7", "8", "9"}

\* The least member of a non-empty set of positions
Least(S) == CHOOSE x \in S : \A y \in S : x <= y

\* The first position from p on that holds no white space
SkipSpaces(line, p) ==
    Least({q \in p..Len(line) + 1 : q > Len(line) \/ ~IsSpace(line[q])})

\* The first position from p on that holds no digit
SkipDigits(line, p) ==
    Least({q \in p..Len(line) + 1 : q > Len(line) \/ ~IsDigit(line[q])})

\* \[\d+:\d+\] at position i: the position after it, or 0
TimestampEnd(line, i) ==
    IF i > Len(line) \/ line[i] /= "[" THEN 0
    ELSE LET c == SkipDigits(line, i + 1)
         IN  IF c = i + 1 \/ c > Len(line) \/ line[c] /= ":" THEN 0
             ELSE LET b == SkipDigits(line, c + 1)
                  IN  IF b = c + 1 \/ b > Len(line) \/ line[b] /= "]" THEN 0 ELSE b + 1

NoMatch == [ok |-> FALSE, lo |-> 0, hi |-> 0]

\* ([^:(]+?)(?:\s*\([^)]+\))?: with group 1 starting at position s: group 1 is
\* lazy, so it ends at the first place from which the rest matches
SpeakerGroup(line, s) ==
    LET specials == {q \in s..Len(line) : line[q] \in {":", "("}}
    IN  IF specials = {} THEN NoMatch
        ELSE LET q == Least(specials)
             IN  IF q = s THEN NoMatch
                 ELSE IF line[q] = ":" THEN [ok |-> TRUE, lo |-> s, hi |-> q - 1]
                 ELSE LET closes == {e \in q + 1..Len(line) : line[e] = ")"}
                      IN  IF closes = {} THEN NoMatch
                          ELSE LET e == Least(closes)
                               IN  IF e = q + 1 \/ e + 1 > Len(line) \/ line[e + 1] /= ":"
                                   THEN NoMatch
                                   ELSE LET r == Least({r \in s + 1..q :
                                                \A t \in r..q - 1 : IsSpace(line[t])})
                                        IN  [ok |-> TRUE, lo |-> s, hi |-> r - 1]

\* The positions from `from` down to `to`, the order in which a greedy \s*
\* gives back what it took
Downto(from, to) == [k \in 1..from - to + 1 |-> from - k + 1]

RECURSIVE Flatten(_)
Flatten(ss) == IF ss = <<>> THEN <<>> ELSE Head(ss) \o Flatten(Tail(ss))

RECURSIVE Ascending(_)
\* The members of a set of positions, least first
Ascending(S) == IF S = {} THEN <<>> ELSE <<Least(S)>> \o Ascending(S \ {Least(S)})

\* \s*(?:\[.*?\]\s*)? from position p, the end of the timestamp: the places
\* where group 1 can start, in the order the regex engine tries them
SpeakerStarts(line, p) ==
    LET first == SkipSpaces(line, p)
        closes == IF first <= Len(line) /\ line[first] = "["
                  THEN Ascending({c \in first + 1..Len(line) : line[c] = "]"})
                  ELSE <<>>
        after == [k \in 1..Len(closes) |->
                    Downto(SkipSpaces(line, closes[k] + 1), closes[k] + 1)]
    IN  Flatten(after) \o Downto(first, p)

\* The match of the whole pattern with its timestamp at position i
MatchAt(line, i) ==
    LET p == TimestampEnd(line, i)
    IN  IF p = 0 THEN NoMatch
        ELSE LET starts == SpeakerStarts(line, p)
                 good == {k \in 1..Len(starts) : SpeakerGroup(line, starts[k]).ok}
             IN  IF good = {} THEN NoMatch ELSE SpeakerGroup(line, starts[Least(good)])

\* re.search: the match at the leftmost position that has one
SearchSpeaker(line) ==
    LET at == {i \in 1..Len(line) : MatchAt(line, i).ok}
    IN  IF at = {} THEN NoMatch ELSE MatchAt(line, Least(at))

\* _track_speaker, lines 154-156: the registry after a speaker was found
RegisterOverwriting(known, key, speaker) ==
    [k \in DOMAIN known \cup {key} |-> IF k = key THEN speaker ELSE known[k]]
Register(known, key, speaker) ==
    IF key \in DOMAIN known THEN known
    ELSE [k \in DOMAIN known \cup {key} |-> IF k = key THEN speaker ELSE known[k]]

\* TranscriptEnricher._track_speaker, as the new value of self.known_speakers
TrackSpeaker(known, line) ==
    LET match == SearchSpeaker(line)
    IN  IF ~match.ok THEN known
        ELSE LET speaker == Strip(SubSeq(line, match.lo, match.hi))
             IN  IF \E x \in SpeakerWords : Contains(Lower(speaker), x)
                 THEN Register(known, Lower(speaker), speaker)
                 ELSE known

\* _enrich, lines 137-142: the history after a call that returned
HistoryAfter(history, enriched) ==
    LET appended == Append(history, enriched)
    IN  IF Len(appended) > max_history THEN Tail(appended) ELSE appended

\* _loop, lines 81-89: the on_enriched calls made for an item, given what the
\* remote call did
LoopCallbacks(item, outcome) ==
    IF outcome.raised
    THEN <<[text |-> FallbackLine(item), id |-> item.id]>>
    ELSE LET enriched == Strip(outcome.content)
         IN  IF Truthy(enriched) THEN <<[text |-> enriched, id |-> item.id]>> ELSE <<>>

\* _loop, lines 81-89, once the remote call of _enrich (line 128) is over
WorkerRemoteReturns(w, outcome) ==
    /\ enricher_threads[w].pc = "calling"
    /\ LET item  == enricher_threads[w].item
           calls == LoopCallbacks(item, outcome)
       IN  /\ message_queue' =
                 IF calls = <<>> THEN message_queue
                 ELSE OnEnrichedTranscript(message_queue, calls[1].text, calls[1].id)
           /\ recent_transcripts' =
                 IF outcome.raised THEN recent_transcripts
                 ELSE HistoryAfter(recent_transcripts, Strip(outcome.content))
           /\ known_speakers' =
                 IF outcome.raised THEN known_speakers
                 ELSE TrackSpeaker(known_speakers, Strip(outcome.content))
           /\ remote_failed' = IF outcome.raised THEN remote_failed \cup {item.id}
                                                 ELSE remote_failed
    /\ enricher_threads' = [enricher_threads EXCEPT ![w] = [pc |-> "check", item |-> NoItem, history |-> <<>>]]
    /\ UNCHANGED <<enricher_running, enricher_queue, clock, enqueued, remote_log, whisper_count, whisper_call>>
    /\ UNCHANGED <<connVars, sendVars, msgVars, applied, streamerVars>>
    /\ UNCHANGED <<captureVars, orchVars, serverVars, swapVars>>

\* ----------------------------------------------------------- capture engine

\* StreamAudioService.run, line 113: DesktopAudioStreamer.start, lines 52-62
StreamerStart ==
    /\ run_pc = "streamer"
    /\ proc_pc = "none"
    /\ streamer_running' = TRUE
    /\ proc_pc' = "starting"
    /\ run_pc' = StepAfter(RunSteps, "streamer", "running")
    /\ UNCHANGED <<hub_state, ws_server_state, svc_stop_pc, stop_raised>>
    /\ UNCHANGED <<stop_pc, queue, cb, pushed, dropped, drained>>
    /\ UNCHANGED <<connVars, sendVars, msgVars, applied, serviceVars, enricherVars>>
    /\ UNCHANGED <<captureVars, serverVars, swapVars>>

\* _process_worker, lines 154-156, and _run_stream, lines 166-173: the worker
\* calls _run_stream, which starts on an empty buffer, or it ends because stop()
\* was called first
ProcOpenStream ==
    /\ proc_pc = "starting"
    /\ retry < max_retry
    /\ IF streamer_running
       THEN /\ proc_pc' = "streaming"
            /\ attempts' = attempts + 1
            /\ audio_buf' = <<>>
            /\ since_send' = 0                     \* last_send = time.time()
            /\ stream_pc' = "drain"
       ELSE /\ proc_pc' = "ended"
            /\ UNCHANGED <<attempts, audio_buf, since_send, stream_pc>>
    /\ UNCHANGED <<retry, gate_log>>
    /\ UNCHANGED <<streamer_running, stop_pc, queue, cb, pushed, dropped, drained>>
    /\ UNCHANGED <<connVars, sendVars, msgVars, applied, serviceVars, enricherVars>>
    /\ UNCHANGED <<orchVars, serverVars, swapVars>>

\* _process_worker, lines 157-163: _run_stream raised, on opening the device or
\* later (the stream is closed, none of its callbacks is running). If stop()
\* was called the worker ends; else the failure is counted and printed, and the
\* worker sleeps 2.0 s
ProcStreamFails ==
    /\ proc_pc = "streaming"
    /\ cb.pc = "idle"
    /\ IF ~streamer_running
       THEN /\ proc_pc' = "ended"
            /\ retry' = retry
       ELSE /\ proc_pc' = "backoff"
            /\ retry' = retry + 1
    /\ UNCHANGED <<attempts, audio_buf, gate_log, since_send, stream_pc>>
    /\ UNCHANGED <<streamer_running, stop_pc, queue, cb, pushed, dropped, drained>>
    /\ UNCHANGED <<connVars, sendVars, msgVars, applied, serviceVars, enricherVars>>
    /\ UNCHANGED <<orchVars, serverVars, swapVars>>

\* _process_worker, line 154, after the sleep: the `while` goes round if the
\* engine is running and failures are left, else the worker returns; it calls
\* nothing and sets nothing on its way out
ProcBackoffEnds ==
    /\ proc_pc = "backoff"
    /\ proc_pc' = IF streamer_running /\ retry < max_retry THEN "starting" ELSE "ended"
    /\ UNCHANGED <<streamer_running, stop_pc, queue, cb, pushed, dropped, drained>>
    /\ UNCHANGED <<connVars, sendVars, msgVars, applied, serviceVars, enricherVars>>
    /\ UNCHANGED <<captureVars, orchVars, serverVars, swapVars>>

\* _run_stream, line 175: `while self.running` fails, the stream is closed
ProcExit ==
    /\ proc_pc = "streaming"
    /\ ~streamer_running
    /\ proc_pc' = "ended"
    /\ UNCHANGED <<streamer_running, stop_pc, queue, cb, pushed, dropped, drained>>
    /\ UNCHANGED <<connVars, sendVars, msgVars, applied, serviceVars, enricherVars>>
    /\ UNCHANGED <<captureVars, orchVars, serverVars, swapVars>>

\* The int16 samples a block can hold. A block stands for chunk_samples samples
\* and is one sample here; in units of 1/32768 of full scale.
SampleValues == {-70, -69, 0, 69}
BlockData == {<<v>> : v \in SampleValues}

\* _run_stream, lines 177-183: one get_nowait of the drain loop; `data` is what
\* the device had written into the block
DrainGet(data) ==
    /\ proc_pc = "streaming"
    /\ queue /= <<>>
    /\ queue' = Tail(queue)
    /\ drained' = Append(drained, Head(queue))
    /\ audio_buf' = audio_buf \o data
    /\ stream_pc' = "drain"
    /\ UNCHANGED <<retry, attempts, gate_log, since_send>>
    /\ UNCHANGED <<streamer_running, proc_pc, stop_pc, cb, pushed, dropped>>
    /\ UNCHANGED <<connVars, sendVars, msgVars, applied, serviceVars, enricherVars>>
    /\ UNCHANGED <<orchVars, serverVars, swapVars>>

\* self.input_rate, the rate the device reports, in samples a second
input_rate == 2

\* self.send_interval_s = 1.2, in tenths of a second
send_interval_s == 12

\* self.min_send_samples = int(self.input_rate * self.send_interval_s)
min_send_samples == (input_rate * send_interval_s) \div 10

\* max_buf = int(self.input_rate * 5)
max_buf == input_rate * 5

\* The time one step of the model's clock takes, in tenths of a second
ClockStep == 6

\* _run_stream, lines 186-187: whether a chunk is taken in this iteration
ChunkDueOnLength(elapsed, len) == len >= min_send_samples
ChunkDue(elapsed, len) == elapsed >= send_interval_s /\ len >= min_send_samples

\* _run_stream, lines 208-210: audio_buf[-max_buf:] if the buffer is longer
CapKeepOldest(buf) == IF Len(buf) > max_buf THEN SubSeq(buf, 1, max_buf) ELSE buf
Cap(buf) == IF Len(buf) > max_buf THEN SubSeq(buf, Len(buf) - max_buf + 1, Len(buf)) ELSE buf

\* np.sum
RECURSIVE Sum(_)
Sum(x) == IF x = <<>> THEN 0 ELSE Head(x) + Sum(Tail(x))

\* to_send - np.mean(to_send), in units of 1/Len(to_send) of a sample unit
RemoveDC(to_send) == [i \in 1..Len(to_send) |-> Len(to_send) * to_send[i] - Sum(to_send)]

\* to_send, scaled to the same units
KeepDC(to_send) == [i \in 1..Len(to_send) |-> Len(to_send) * to_send[i]]

\* np.clip(to_send * self.gain, -1.0, 1.0) with gain = 1.5, on n samples in
\* units of 1/n: the result is in units of 1/(2n), full scale being 32768 * 2n
GainAndClip(x, n) ==
    [i \in 1..Len(x) |-> IF 3 * x[i] > 65536 * n THEN 65536 * n
                          ELSE IF 3 * x[i] < -(65536 * n) THEN -(65536 * n)
                          ELSE 3 * x[i]]

\* self._db(audio) >= self.db_threshold, for n samples in units of 1/(2n):
\* rms = sqrt(mean(audio ** 2)); for rms = 0 the loudness is -100, and else
\* 20 * log10(rms) >= -50 means mean(audio ** 2) >= 10 ** -5, which is
\* sum(y ** 2) / (n * (2n) ** 2 * 2 ** 30) >= 1 / 10 ** 5, both sides over 32
DbReachesThreshold(y, n) ==
    LET sumsq == Sum([i \in 1..Len(y) |-> y[i] * y[i]])
    IN IF sumsq = 0 THEN -100 >= db_threshold
       ELSE 3125 * sumsq >= 134217728 * n * n * n

\* _run_stream, lines 192-196: the gate on the chunk cut off the buffer
PassesGateKeepingDC(to_send) ==
    DbReachesThreshold(GainAndClip(KeepDC(to_send), Len(to_send)), Len(to_send))
PassesGate(to_send) ==
    DbReachesThreshold(GainAndClip(RemoveDC(to_send), Len(to_send)), Len(to_send))

\* _run_stream, lines 185-212, in an iteration in which a chunk is due: the
\* chunk is cut off the buffer, gated, and handed to the loop; last_send = now;
\* the buffer is capped
ProcSendStep ==
    /\ proc_pc = "streaming"
    /\ streamer_running
    /\ ChunkDue(since_send, Len(audio_buf))
    /\ Len(sends) < MaxChunks
    /\ LET to_send == SubSeq(audio_buf, 1, min_send_samples)
           rest == SubSeq(audio_buf, min_send_samples + 1, Len(audio_buf))
           handed == PassesGate(to_send) /\ conn_pc /= "idle"
       IN /\ audio_buf' = Cap(rest)
          /\ since_send' = 0
          /\ stream_pc' = "sleep"
          /\ sends' = IF handed
                      THEN Append(sends, [pc |-> "scheduled", len |-> SendChunkBytes,
                                          closing_seen |-> "no"])
                      ELSE sends
          /\ gate_log' = Append(gate_log, [chunk |-> to_send, sent |-> handed])
    /\ UNCHANGED <<retry, attempts, wire, audio_accumulated>>
    /\ UNCHANGED <<connVars, msgVars, applied, serviceVars, enricherVars, streamerVars>>
    /\ UNCHANGED <<orchVars, serverVars, swapVars>>

\* _run_stream, lines 185-212, in an iteration in which no chunk is due: the
\* buffer is capped, and the worker sleeps; time passes
ProcIdleStep ==
    /\ proc_pc = "streaming"
    /\ streamer_running
    /\ ~ChunkDue(since_send, Len(audio_buf))
    /\ audio_buf' = Cap(audio_buf)
    /\ since_send' = IF since_send + ClockStep > send_interval_s THEN send_interval_s
                                                                 ELSE since_send + ClockStep
    /\ stream_pc' = "sleep"
    /\ UNCHANGED <<retry, attempts, gate_log>>
    /\ UNCHANGED <<connVars, sendVars, msgVars, applied, serviceVars, enricherVars, streamerVars>>
    /\ UNCHANGED <<orchVars, serverVars, swapVars>>

\* StreamAudioService._on_volume
OnVolume(q) == Broadcast(q, [type |-> "volume", id |-> 0, text |-> <<>>])

\* _audio_callback, lines 109-114, called by the device for the next block
CallbackEnter ==
    /\ proc_pc = "streaming"
    /\ cb.pc = "idle"
    /\ cb.block < MaxBlocks
    /\ IF ~streamer_running
       THEN /\ cb' = [pc |-> "idle", block |-> cb.block + 1]
            /\ UNCHANGED message_queue
       ELSE /\ cb' = [pc |-> "put", block |-> cb.block + 1]
            /\ message_queue' = OnVolume(message_queue)
    /\ UNCHANGED <<streamer_running, proc_pc, stop_pc, queue, pushed, dropped, drained>>
    /\ UNCHANGED <<connVars, sendVars, msgVars, applied, whisper_count, whisper_call, enricherVars>>
    /\ UNCHANGED <<captureVars, orchVars, serverVars, swapVars>>

\* _audio_callback, lines 115-117: put_nowait, which raises queue.Full on a full queue
CallbackPut ==
    /\ cb.pc = "put"
    /\ pushed' = Append(pushed, cb.block)
    /\ IF Len(queue) < MaxQueue
       THEN /\ queue' = Append(queue, cb.block)
            /\ cb' = [cb EXCEPT !.pc = "idle"]
       ELSE /\ queue' = queue
            /\ cb' = [cb EXCEPT !.pc = "evict"]
    /\ UNCHANGED <<streamer_running, proc_pc, stop_pc, dropped, drained>>
    /\ UNCHANGED <<connVars, sendVars, msgVars, applied, serviceVars, enricherVars>>
    /\ UNCHANGED <<captureVars, orchVars, serverVars, swapVars>>

\* _audio_callback, lines 118-122: get_nowait, which raises queue.Empty on an
\* empty queue; `except Exception: pass` ends the callback
CallbackEvict ==
    /\ cb.pc = "evict"
    /\ IF queue = <<>>
       THEN /\ queue' = queue
            /\ dropped' = dropped \cup {cb.block}
            /\ cb' = [cb EXCEPT !.pc = "idle"]
       ELSE /\ queue' = Tail(queue)
            /\ dropped' = dropped
            /\ cb' = [cb EXCEPT !.pc = "put_again"]
    /\ UNCHANGED <<streamer_running, proc_pc, stop_pc, pushed, drained>>
    /\ UNCHANGED <<connVars, sendVars, msgVars, applied, serviceVars, enricherVars>>
    /\ UNCHANGED <<captureVars, orchVars, serverVars, swapVars>>

\* _audio_callback, lines 120-122: the second put_nowait
CallbackPutAgain ==
    /\ cb.pc = "put_again"
    /\ IF Len(queue) < MaxQueue
       THEN /\ queue' = Append(queue, cb.block)
            /\ dropped' = dropped
       ELSE /\ queue' = queue
            /\ dropped' = dropped \cup {cb.block}
    /\ cb' = [cb EXCEPT !.pc = "idle"]
    /\ UNCHANGED <<streamer_running, proc_pc, stop_pc, pushed, drained>>
    /\ UNCHANGED <<connVars, sendVars, msgVars, applied, serviceVars, enricherVars>>
    /\ UNCHANGED <<captureVars, orchVars, serverVars, swapVars>>

\* StreamAudioService.stop, lines 124-130, called once run() has started the
\* components: the flag, then DesktopAudioStreamer.stop, lines 66-72: `running`
\* is cleared and disconnect() is scheduled on the loop
StreamerStop ==
    /\ svc_stop_pc = "idle"
    /\ stop_pc = "idle"
    /\ proc_pc /= "none"
    /\ streamer_running' = FALSE
    /\ stop_pc' = "disconnecting"
    /\ svc_stop_pc' = "streamer"
    /\ UNCHANGED <<run_pc, hub_state, ws_server_state, stop_raised>>
    /\ UNCHANGED <<proc_pc, queue, cb, pushed, dropped, drained>>
    /\ UNCHANGED <<connVars, sendVars, msgVars, applied, serviceVars, enricherVars>>
    /\ UNCHANGED <<captureVars, serverVars, swapVars>>

\* StreamAudioService.stop, lines 131-132: streamer.stop() raised on its way
StreamerStopRaises ==
    /\ svc_stop_pc = "streamer"
    /\ stop_pc \in {"disconnecting", "clearing"}
    /\ stop_pc' = "raised"
    /\ stop_raised' = stop_raised \cup {"streamer"}
    /\ svc_stop_pc' = AfterStep(TRUE, StepAfter(StopSteps, "streamer", "returned"))
    /\ UNCHANGED <<run_pc, hub_state, ws_server_state>>
    /\ UNCHANGED <<streamer_running, proc_pc, queue, cb, pushed, dropped, drained>>
    /\ UNCHANGED <<connVars, sendVars, msgVars, applied, serviceVars, enricherVars>>
    /\ UNCHANGED <<captureVars, serverVars, swapVars>>

\* stop, lines 73-83: the wait for disconnect and the joins return or time out
StopProceed ==
    /\ stop_pc = "disconnecting"
    /\ stop_pc' = "clearing"
    /\ UNCHANGED <<streamer_running, proc_pc, queue, cb, pushed, dropped, drained>>
    /\ UNCHANGED <<connVars, sendVars, msgVars, applied, serviceVars, enricherVars>>
    /\ UNCHANGED <<captureVars, orchVars, serverVars, swapVars>>

\* stop, lines 85-89: one turn of the loop that empties the queue
StopClear ==
    /\ stop_pc = "clearing"
    /\ IF queue = <<>>
       THEN /\ stop_pc' = "done"
            /\ svc_stop_pc' = AfterStep(FALSE, StepAfter(StopSteps, "streamer", "returned"))
            /\ UNCHANGED <<queue, drained>>
       ELSE /\ stop_pc' = stop_pc
            /\ svc_stop_pc' = svc_stop_pc
            /\ queue' = Tail(queue)
            /\ drained' = Append(drained, Head(queue))
    /\ UNCHANGED <<run_pc, hub_state, ws_server_state, stop_raised>>
    /\ UNCHANGED <<streamer_running, proc_pc, cb, pushed, dropped>>
    /\ UNCHANGED <<connVars, sendVars, msgVars, applied, serviceVars, enricherVars>>
    /\ UNCHANGED <<captureVars, serverVars, swapVars>>

\* ----------------------------------------------------------- initial state

NoMsg == Msg("none", <<>>, None)
NoApplication == [fn |-> "none", last |-> <<>>, new_text |-> <<>>, result |-> FALSE]

InitSession ==
    /\ ws = "None"
    /\ sock = "none"
    /\ closing = FALSE
    /\ conn_pc = "idle"
    /\ disc_pc = "idle"
    /\ sends = <<>>
    /\ wire = <<>>
    /\ audio_accumulated = 0
    /\ handled = [n |-> 0, msg |-> NoMsg, prev_last |-> <<>>, mq_before |-> 0,
                  on_transcript |-> <<>>, on_error |-> <<>>]

InitService ==
    /\ message_queue = <<>>
    /\ whisper_count = 0
    /\ whisper_call = NoCall

InitEnricher ==
    /\ enricher_running = FALSE
    /\ enricher_queue = <<>>
    /\ enricher_threads = <<>>
    /\ recent_transcripts = <<>>
    /\ known_speakers = [key \in {} |-> <<>>]
    /\ clock = 1
    /\ enqueued = <<>>
    /\ remote_log = <<>>
    /\ remote_failed = {}

InitStreamer ==
    /\ streamer_running = FALSE
    /\ proc_pc = "none"
    /\ stop_pc = "idle"
    /\ queue = <<>>
    /\ cb = [pc |-> "idle", block |-> 0]
    /\ pushed = <<>>
    /\ dropped = {}
    /\ drained = <<>>

InitCapture ==
    /\ retry = 0
    /\ attempts = 0
    /\ audio_buf = <<>>
    /\ gate_log = <<>>
    /\ since_send = 0
    /\ stream_pc = "drain"

InitOrchestrator ==
    /\ run_pc = RunSteps[1]
    /\ hub_state = "none"
    /\ ws_server_state = "none"
    /\ svc_stop_pc = "idle"
    /\ stop_raised = {}

\* No _do_broadcast call in progress
NoFanout == [k |-> 0, targets |-> {}, dead |-> {}]

\* The clients that can connect in some specification
Clients == 1..(IF MaxClients > MaxPassClients THEN MaxClients ELSE MaxPassClients)

InitServer ==
    /\ connected_clients = {}
    /\ client_conns = [c \in Clients |-> "none"]
    /\ delivered = [c \in Clients |-> <<>>]
    /\ fanouts = [queue |-> NoFanout, heartbeat |-> NoFanout]
    /\ fanned = <<>>
    /\ joined = [c \in Clients |-> 0]
    /\ hb_slept = 0

\* __init__ creates the first engine; nothing is started
InitSwap ==
    /\ engines = <<[running |-> FALSE, loop |-> 0]>>
    /\ loops = <<>>
    /\ streamer_ref = 1
    /\ http_threads = <<>>
    /\ shutting_down = FALSE
    /\ shutdown_lock = 0
    /\ teardown_log = <<>>

\* The state after StreamAudioService.__init__
Init ==
    /\ InitSession
    /\ last_transcript = <<>>
    /\ applied = NoApplication
    /\ InitService
    /\ InitEnricher
    /\ InitStreamer
    /\ InitCapture
    /\ InitOrchestrator
    /\ InitServer
    /\ InitSwap

\* ------------------------------------------------------------ the pipeline
\* Transcripts from the session client through the enrichment queue to the
\* broadcast queue.

Completed(text) == Msg("conversation.item.input_audio_transcription.completed", text, None)

PipelineTexts == {<<"I">>, <<"a", "b">>, <<"b", "a", " ">>}

NextPipeline ==
    \/ HubStart
    \/ WsServerStart
    \/ EnricherStart
    \/ StreamerStart
    \/ ConnectStart
    \/ ConnectEstablished
    \/ Tick
    \/ \E text \in PipelineTexts : handled.n < MaxUtterances /\ HandleMessage(Completed(text))
    \/ \E w \in 1..Len(enricher_threads) : WorkerCheck(w)
    \/ \E w \in 1..Len(enricher_threads) : WorkerTake(w)
    \/ \E w \in 1..Len(enricher_threads), outcome \in RemoteOutcomes : WorkerRemoteReturns(w, outcome)
    \/ StreamerStop
    \/ DisconnectStart
    \/ StopProceed
    \/ StopClear
    \/ \E raised \in BOOLEAN : EnricherStop(raised)

SpecPipeline == Init /\ [][NextPipeline]_vars

\* The events of one type on the broadcast queue, in the order they were put
EventsOfType(t) == SelectSeq(message_queue, LAMBDA e : e.type = t)
EnrichedEvents == EventsOfType("transcript_enriched")
RawEvents == EventsOfType("transcript_raw")

IdsOf(s) == [i \in 1..Len(s) |-> s[i].id]

\* The threads inside the remote call
Calling == {w \in 1..Len(enricher_threads) : enricher_threads[w].pc = "calling"}

\* The worker runs and has nothing left to do: the queue is empty and no item is held
WorkerIdle == enricher_running /\ enricher_queue = <<>> /\ Calling = {}

\* C1: whenever the running worker has worked off everything enrich() was given,
\* on_enriched has been invoked exactly once per enqueued utterance, in the order
\* the utterances were enqueued, whatever the remote calls did.
EnrichedOncePerEnqueuedInOrder ==
    WorkerIdle => IdsOf(EnrichedEvents) = IdsOf(enqueued)

\* C2: whenever the running worker has worked off its queue, every transcript_raw
\* event on the broadcast queue has exactly one transcript_enriched event with its id.
EveryRawHasOneEnriched ==
    WorkerIdle =>
        \A i \in 1..Len(RawEvents) :
            Cardinality({j \in 1..Len(EnrichedEvents) :
                            EnrichedEvents[j].id = RawEvents[i].id}) = 1

\* C3: at most one remote enrichment call is in flight, and the items the remote
\* service was called for are the enqueued items in insertion order, the queue
\* holding the rest in insertion order, while enrich() keeps appending.
AtMostOneCallInInsertionOrder ==
    /\ Cardinality(Calling) <= 1
    /\ Len(remote_log) <= Len(enqueued)
    /\ \A i \in 1..Len(remote_log) : remote_log[i] = enqueued[i].id
    /\ enricher_queue = SubSeq(enqueued, Len(remote_log) + 1, Len(enqueued))

\* C3: the second item is in flight, after the first
SecondItemInFlight ==
    /\ Len(remote_log) = 2
    /\ \E w \in Calling : enricher_threads[w].item.id = remote_log[2]

\* The line "[M:SS] <raw text>" for an item: minutes unpadded, seconds on two digits
IsDegradedLine(text, item) ==
    \E m \in 0..99, sec \in 0..59 :
        /\ m * 60 + sec = item.timestamp \div 10
        /\ text = <<"[">> \o Str(m) \o <<":", Digit(sec \div 10), Digit(sec % 10), "]", " ">>
                     \o item.text

\* C4: for every item whose remote call failed, the remote service was called once
\* for it, and on_enriched was invoked once with its id, with the line "[M:SS] <raw
\* text>" built from the item's own enqueue-time timestamp and raw text.
FailedItemGetsOneDegradedLine ==
    \A id \in remote_failed :
        /\ Cardinality({i \in 1..Len(remote_log) : remote_log[i] = id}) = 1
        /\ \E k \in 1..Len(enqueued) :
            /\ enqueued[k].id = id
            /\ LET lines == SelectSeq(EnrichedEvents, LAMBDA e : e.id = id)
               IN  /\ Len(lines) = 1
                   /\ IsDegradedLine(lines[1].text, enqueued[k])

\* C4: an item enqueued past the first hour, with seconds below ten, failed, and
\* the clock is the same as when it was enqueued or later
LateItemFailed ==
    \E k \in 1..Len(enqueued) :
        /\ enqueued[k].id \in remote_failed
        /\ enqueued[k].timestamp = 36075

\* ------------------------------------------------------ duplicate suppression
\* _is_duplicate as a function of last_transcript and the candidate.

\* The texts of up to n characters over a two-letter alphabet
Texts(n) == UNION {[1..k -> {"a", "b"}] : k \in 0..n}

InitDedup ==
    /\ InitSession
    /\ last_transcript \in Texts(MaxTextLen)
    /\ applied = NoApplication
    /\ InitService
    /\ InitEnricher
    /\ InitStreamer
    /\ InitCapture
    /\ InitOrchestrator
    /\ InitServer
    /\ InitSwap

\* self._is_duplicate(new_text), applied once in a behaviour
ApplyIsDuplicate(new_text) ==
    /\ applied = NoApplication
    /\ applied' = [fn |-> "_is_duplicate", last |-> last_transcript, new_text |-> new_text,
                   result |-> IsDuplicate(last_transcript, new_text)]
    /\ UNCHANGED <<connVars, sendVars, msgVars, serviceVars, enricherVars, streamerVars>>
    /\ UNCHANGED <<captureVars, orchVars, serverVars, swapVars>>

NextDedup == \E new_text \in Texts(MaxTextLen) : ApplyIsDuplicate(new_text)

SpecDedup == InitDedup /\ [][NextDedup]_vars

\* The length of the longest text that occurs contiguously in both a and b
LongestCommonSubstring(a, b) ==
    SetMax({n \in 0..Len(b) :
               \E i \in 0..(Len(a) - n), j \in 0..(Len(b) - n) :
                   SubSeq(a, i + 1, i + n) = SubSeq(b, j + 1, j + n)})

\* The three stated ways of being a duplicate
StatedDuplicate(last, candidate) ==
    \/ candidate = last
    \/ Len(candidate) <= Len(last)
       /\ SubSeq(last, Len(last) - Len(candidate) + 1, Len(last)) = candidate
    \/ 10 * LongestCommonSubstring(last, candidate) > 8 * Len(candidate)

PassesCharacterFilter(text) ==
    10 * Cardinality({i \in 1..Len(text) : Ord(text[i]) < 128}) >= 7 * Len(text)

MsgTexts ==
    { <<>>, <<" ">>, <<"a">>, <<"a", "b">>, <<" ", "a", "b", " ">>, <<"e">>,
      <<"a", "a", "e">>, <<"a", "a", "a", "e">>,
      <<"a", "a", "a", "a", "a", "a", "a", "e", "e", "e">> }

ErrorTexts ==
    { None,
      BufferTooSmall,
      <<"x", " ">> \o BufferOnlyHas \o <<" ", "0">>,
      <<"B">> \o Tail(BufferTooSmall),
      <<"r", "a", "t", "e">> }

Messages ==
    {Completed(t) : t \in MsgTexts}
    \cup {Msg("error", <<>>, e) : e \in ErrorTexts}
    \cup {Msg(t, <<>>, None) : t \in {"input_audio_buffer.speech_stopped",
                                      "input_audio_buffer.committed",
                                      "session.updated"}}

NextMsg ==
    \/ HubStart
    \/ WsServerStart
    \/ EnricherStart
    \/ StreamerStart
    \/ ConnectStart
    \/ ConnectEstablished
    \/ \E msg \in Messages : handled.n < MaxMessages /\ HandleMessage(msg)

SpecMsg == Init /\ [][NextMsg]_vars

\* The events put on the broadcast queue since the last message was handled
EventsSinceHandled == SubSeq(message_queue, handled.mq_before + 1, Len(message_queue))

ErrorEventsSurfacedUnlessBenign ==
    handled.msg.type = "error" =>
        LET err_msg == IF handled.msg.message = None THEN UnknownError
                       ELSE handled.msg.message
            benign  == Contains(err_msg, BufferTooSmall) \/ Contains(err_msg, BufferOnlyHas)
        IN  /\ IF benign
               THEN /\ handled.on_error = <<>>
                    /\ EventsSinceHandled = <<>>
               ELSE /\ Len(handled.on_error) = 1
                    /\ EventsSinceHandled = <<[type |-> "error", id |-> 0,
                                               text |-> handled.on_error[1]]>>
                    /\ Contains(handled.on_error[1], err_msg)
            /\ conn_pc = "loop" /\ sock = "open" /\ ~closing

\* C9: a "buffer only has" error was swallowed after another error had been
\* surfaced: the loop went on after the first
BenignSwallowedAfterSurfaced ==
    /\ handled.msg.type = "error"
    /\ handled.msg.message /= None
    /\ Contains(handled.msg.message, BufferOnlyHas)
    /\ handled.on_error = <<>>
    /\ EventsOfType("error") /= <<>>

\* ------------------------------------------------------------- audio sends
\* send_audio_chunk coroutines on the session's loop, no message arriving.

NextSend ==
    \/ HubStart
    \/ WsServerStart
    \/ EnricherStart
    \/ StreamerStart
    \/ ProcOpenStream
    \/ ConnectStart
    \/ ConnectEstablished
    \/ ScheduleSend(SendChunkBytes)
    \/ \E i \in 1..Len(sends) : SendStart(i)
    \/ \E i \in 1..Len(sends), ok \in BOOLEAN : SendAfterAppend(i, ok)
    \/ \E i \in 1..Len(sends), ok \in BOOLEAN : SendAfterCommit(i, ok)

SpecSend == Init /\ [][NextSend]_vars

\* The duration appended on the wire w before position k since the commit before it
RECURSIVE AppendedBefore(_, _)
AppendedBefore(w, k) ==
    IF k <= 1 \/ w[k - 1].type = "input_audio_buffer.commit" THEN 0
    ELSE (IF w[k - 1].type = "input_audio_buffer.append" THEN w[k - 1].len ELSE 0)
         + AppendedBefore(w, k - 1)

AllReturned == \A i \in 1..Len(sends) : sends[i].pc = "returned"

\* C6: with no speech-stopped, committed or transcription-completed event, a
\* commit is sent only when the duration sent since the previous commit has reached
\* the force-commit interval, and once the calls have returned the duration sent
\* since the last commit is below the interval and a commit sent last has left the
\* counter at 0.
CommitOncePerInterval ==
    /\ \A k \in 1..Len(wire) :
          wire[k].type = "input_audio_buffer.commit" =>
              AppendedBefore(wire, k) >= ForceCommitInterval
    /\ AllReturned =>
          /\ AppendedBefore(wire, Len(wire) + 1) < ForceCommitInterval
          /\ wire /= <<>> /\ wire[Len(wire)].type = "input_audio_buffer.commit"
                => audio_accumulated = 0

\* ------------------------------------------------------------ disconnection
\* send_audio_chunk coroutines and disconnect() on the session's loop.

NextClose ==
    \/ HubStart
    \/ WsServerStart
    \/ EnricherStart
    \/ StreamerStart
    \/ ProcOpenStream
    \/ ConnectStart
    \/ ConnectEstablished
    \/ ScheduleSend(SendChunkBytes)
    \/ \E i \in 1..Len(sends) : SendStart(i)
    \/ \E i \in 1..Len(sends), ok \in BOOLEAN : SendAfterAppend(i, ok)
    \/ \E i \in 1..Len(sends), ok \in BOOLEAN : SendAfterCommit(i, ok)
    \/ StreamerStop
    \/ ProcExit
    \/ DisconnectStart
    \/ DisconnectFinish
    \/ ConnectFailed
    \/ RemoteDrop
    \/ \E clean \in BOOLEAN : ConnectLoopEnds(clean)

SpecClose == Init /\ [][NextClose]_vars

\* A step of a send_audio_chunk coroutine
SendStep == Len(sends') = Len(sends) /\ sends' /= sends

\* C10, as stated: while the session is closing, no step of a send_audio_chunk
\* coroutine, started after disconnect or suspended when it ran, sends a message,
\* changes the accumulated-duration counter or calls the error callback.
SendsAreNoOpsWhileClosing ==
    [][closing /\ SendStep =>
          /\ wire' = wire
          /\ audio_accumulated' = audio_accumulated
          /\ message_queue' = message_queue]_vars

\* C10: while the session is closing, no step of a send_audio_chunk coroutine
\* sends a message or calls the error callback, and a call that starts then
\* returns at once and leaves the accumulated-duration counter unchanged; (a
\* coroutine suspended in its append send when disconnect ran may still add its
\* duration to the counter.)
SendsWriteNothingWhileClosing ==
    [][closing /\ SendStep =>
          /\ wire' = wire
          /\ message_queue' = message_queue
          /\ \A i \in 1..Len(sends) :
                sends[i].pc = "scheduled" /\ sends'[i].pc /= "scheduled" =>
                    /\ sends'[i].pc = "returned"
                    /\ audio_accumulated' = audio_accumulated]_vars

\* C10: while closing, one call started and returned, and one coroutine that was
\* suspended when disconnect ran resumed from a send that returned, with enough
\* accumulated for a commit to be due
StartedAndResumedWhileClosing ==
    /\ closing
    /\ \E i \in 1..Len(sends) : sends[i].closing_seen = "start" /\ sends[i].pc = "returned"
    /\ \E j \in 1..Len(sends) : sends[j].closing_seen = "resume_ok" /\ sends[j].pc = "returned"
    /\ audio_accumulated >= ForceCommitInterval

\* ------------------------------------------------------ inbound audio queue
\* The device callback, the drain loop and stop() on self.queue.

NextQueue ==
    \/ HubStart
    \/ WsServerStart
    \/ EnricherStart
    \/ StreamerStart
    \/ ProcOpenStream
    \/ CallbackEnter
    \/ CallbackPut
    \/ CallbackEvict
    \/ CallbackPutAgain
    \/ \E data \in BlockData : DrainGet(data)
    \/ StreamerStop
    \/ ProcExit
    \/ StopProceed
    \/ StopClear

SpecQueue == Init /\ [][NextQueue]_vars

\* The last n elements of s, all of s if it is shorter
LastN(s, n) == IF Len(s) <= n THEN s ELSE SubSeq(s, Len(s) - n + 1, Len(s))

\* C5: the queue never holds more than its capacity; no block the callback pushes
\* is given up, a push onto a full queue evicting the oldest block to admit the
\* new one; and as long as nothing was consumed, the queue holds the newest blocks
\* pushed, up to its capacity, in order.
DropOldestAdmitsNewest ==
    /\ Len(queue) <= MaxQueue
    /\ dropped = {}
    /\ drained = <<>> /\ cb.pc = "idle" => queue = LastN(pushed, MaxQueue)

\* ------------------------------------------------------------ device hot-swap
\* The engines as hot-swap sees them: of each DesktopAudioStreamer only `running`
\* and `_loop`, of each network worker its event loop and the connect() it runs on
\* the one shared OpenAIRealtimeClient (self.ws and self._closing above).

\* The websockets connection objects, one per connect() call
WsNames == <<"ws1", "ws2", "ws3", "ws4", "ws5", "ws6">>

\* loop.is_running()
LoopRunning(l) == loops[l].state \in {"until_complete", "forever"}

\* The connect() whose connection object is `name`
ConnOf(name) == CHOOSE l \in 1..Len(loops) : WsNames[l] = name

\* run_until_complete(self.client.connect()) returning, then `finally:
\* loop.run_forever()`
AfterConnectReturns(state) == IF state = "until_complete" THEN "forever" ELSE state

\* DesktopAudioStreamer.start on engine e: running, a new loop, the two threads
EngineStart(e) ==
    /\ loops' = Append(loops, [engine |-> e, state |-> "created", conn |-> "none",
                               sock |-> "none", disc |-> FALSE, stop |-> FALSE,
                               wire |-> <<>>])
    /\ engines' = [engines EXCEPT ![e] = [running |-> TRUE, loop |-> Len(loops) + 1]]

\* StreamAudioService.run: self.streamer.start()
RunStartsStreamer ==
    /\ loops = <<>>
    /\ http_threads = <<>>
    /\ EngineStart(streamer_ref)
    /\ UNCHANGED <<streamer_ref, http_threads, shutting_down, shutdown_lock, teardown_log>>
    /\ UNCHANGED <<connVars, sendVars, msgVars, applied, serviceVars, enricherVars,
                   streamerVars, captureVars, orchVars, serverVars>>

\* _network_worker: run_until_complete(self.client.connect()) up to the await of
\* websockets.connect: connect() resets the closing flag
NetBegin(l) ==
    /\ loops[l].state = "created"
    /\ loops' = [loops EXCEPT ![l].state = "until_complete", ![l].conn = "connecting"]
    /\ closing' = FALSE
    /\ UNCHANGED <<ws, sock, conn_pc, disc_pc>>
    /\ UNCHANGED <<engines, streamer_ref, http_threads, shutting_down, shutdown_lock, teardown_log>>
    /\ UNCHANGED <<sendVars, msgVars, applied, serviceVars, enricherVars,
                   streamerVars, captureVars, orchVars, serverVars>>

\* connect(): the connection is established, `self.ws = ws`. Nothing else runs
\* on this loop until the session update is written, but the other loops are
\* other threads
NetBound(l) ==
    /\ LoopRunning(l)
    /\ loops[l].conn = "connecting"
    /\ loops' = [loops EXCEPT ![l].conn = "bound", ![l].sock = "open"]
    /\ ws' = WsNames[l]
    /\ UNCHANGED <<sock, closing, conn_pc, disc_pc>>
    /\ UNCHANGED <<engines, streamer_ref, http_threads, shutting_down, shutdown_lock, teardown_log>>
    /\ UNCHANGED <<sendVars, msgVars, applied, serviceVars, enricherVars,
                   streamerVars, captureVars, orchVars, serverVars>>

\* connect(): `await self._send_session_update()`, which returns at once if
\* self.ws is None and else writes on whatever self.ws is by now
NetSessionUpdate(l) ==
    /\ LoopRunning(l)
    /\ loops[l].conn = "bound"
    /\ loops' = IF ws = "None"
                THEN [loops EXCEPT ![l].conn = "loop"]
                ELSE [[loops EXCEPT ![l].conn = "loop"] EXCEPT ![ConnOf(ws)].wire =
                          Append(@, "session.update")]
    /\ UNCHANGED connVars
    /\ UNCHANGED <<engines, streamer_ref, http_threads, shutting_down, shutdown_lock, teardown_log>>
    /\ UNCHANGED <<sendVars, msgVars, applied, serviceVars, enricherVars,
                   streamerVars, captureVars, orchVars, serverVars>>

\* connect(): a message arrives while self._closing is set: `break`, the `async
\* with` closes the connection, `finally: self.ws = None`
NetBreaks(l) ==
    /\ LoopRunning(l)
    /\ loops[l].conn = "loop"
    /\ loops[l].sock = "open"
    /\ closing
    /\ loops' = [loops EXCEPT ![l].conn = "returned", ![l].sock = "closed",
                              ![l].state = AfterConnectReturns(@)]
    /\ ws' = "None"
    /\ UNCHANGED <<sock, closing, conn_pc, disc_pc>>
    /\ UNCHANGED <<engines, streamer_ref, http_threads, shutting_down, shutdown_lock, teardown_log>>
    /\ UNCHANGED <<sendVars, msgVars, applied, serviceVars, enricherVars,
                   streamerVars, captureVars, orchVars, serverVars>>

\* connect(): the connection was closed under it, the `async for` ends,
\* `finally: self.ws = None`
NetClosed(l) ==
    /\ LoopRunning(l)
    /\ loops[l].conn = "loop"
    /\ loops[l].sock = "closed"
    /\ loops' = [loops EXCEPT ![l].conn = "returned",
                              ![l].state = AfterConnectReturns(@)]
    /\ ws' = "None"
    /\ UNCHANGED <<sock, closing, conn_pc, disc_pc>>
    /\ UNCHANGED <<engines, streamer_ref, http_threads, shutting_down, shutdown_lock, teardown_log>>
    /\ UNCHANGED <<sendVars, msgVars, applied, serviceVars, enricherVars,
                   streamerVars, captureVars, orchVars, serverVars>>

\* disconnect(), scheduled on loop l by stop(): sets the closing flag, closes
\* whatever self.ws is, and clears it
LoopRunsDisconnect(l) ==
    /\ LoopRunning(l)
    /\ loops[l].conn /= "bound"
    /\ loops[l].disc
    /\ closing' = TRUE
    /\ loops' = IF ws = "None"
                THEN [loops EXCEPT ![l].disc = FALSE]
                ELSE [[loops EXCEPT ![l].disc = FALSE] EXCEPT ![ConnOf(ws)].sock = "closed"]
    /\ ws' = "None"
    /\ UNCHANGED <<sock, conn_pc, disc_pc>>
    /\ UNCHANGED <<engines, streamer_ref, http_threads, shutting_down, shutdown_lock, teardown_log>>
    /\ UNCHANGED <<sendVars, msgVars, applied, serviceVars, enricherVars,
                   streamerVars, captureVars, orchVars, serverVars>>

\* loop.stop(), scheduled on loop l by stop() after disconnect(): it ends
\* run_forever and the thread; but run_until_complete of a connect() that has
\* not returned raises RuntimeError, which _network_worker swallows, and its
\* `finally: loop.run_forever()` runs the loop on, with no stop to come
LoopRunsStop(l) ==
    /\ LoopRunning(l)
    /\ loops[l].conn /= "bound"
    /\ loops[l].stop
    /\ ~loops[l].disc
    /\ loops' = [loops EXCEPT ![l].stop = FALSE,
                              ![l].state = IF @ = "forever" THEN "ended" ELSE "forever"]
    /\ UNCHANGED connVars
    /\ UNCHANGED <<engines, streamer_ref, http_threads, shutting_down, shutdown_lock, teardown_log>>
    /\ UNCHANGED <<sendVars, msgVars, applied, serviceVars, enricherVars,
                   streamerVars, captureVars, orchVars, serverVars>>

\* The appends written so far, on all connections
AppendsWritten ==
    LET RECURSIVE Count(_)
        Count(n) == IF n = 0 THEN 0
                    ELSE Count(n - 1)
                         + Len(SelectSeq(loops[n].wire,
                                         LAMBDA m : m = "input_audio_buffer.append"))
    IN Count(Len(loops))

\* send_audio_chunk up to its append, run on loop l, where the process worker
\* of the loop's engine scheduled it: it writes on whatever self.ws is
LoopRunsSend(l) ==
    /\ LoopRunning(l)
    /\ loops[l].conn /= "bound"
    /\ engines[loops[l].engine].running
    /\ engines[loops[l].engine].loop = l
    /\ AppendsWritten < MaxUtterances
    /\ ws /= "None" /\ ~closing
    /\ loops[ConnOf(ws)].sock = "open"
    /\ loops' = [loops EXCEPT ![ConnOf(ws)].wire = Append(@, "input_audio_buffer.append")]
    /\ UNCHANGED connVars
    /\ UNCHANGED <<engines, streamer_ref, http_threads, shutting_down, shutdown_lock, teardown_log>>
    /\ UNCHANGED <<sendVars, msgVars, applied, serviceVars, enricherVars,
                   streamerVars, captureVars, orchVars, serverVars>>

\* The requests the control server has taken: do_POST starts a thread for each
\* /set-device and each /shutdown; a second stop() returns at the flag
CanRequest(kind) ==
    /\ loops /= <<>>
    /\ Len(http_threads) < MaxRequests
    /\ kind = "shutdown" => ~shutting_down

\* POST /shutdown: the thread takes the lock and sets the flag
ShutdownFlag ==
    /\ CanRequest("shutdown")
    /\ shutting_down' = TRUE
    /\ http_threads' = Append(http_threads, [kind |-> "shutdown", target |-> 0, pc |-> "stop"])
    /\ UNCHANGED <<engines, loops, streamer_ref, shutdown_lock, teardown_log>>
    /\ UNCHANGED <<connVars, sendVars, msgVars, applied, serviceVars, enricherVars,
                   streamerVars, captureVars, orchVars, serverVars>>

\* POST /set-device: the thread enters swap_device, which takes no lock and
\* does not look at the flag
SwapBegins ==
    /\ CanRequest("swap")
    /\ http_threads' = Append(http_threads, [kind |-> "swap", target |-> 0, pc |-> "stop"])
    /\ UNCHANGED <<engines, loops, streamer_ref, shutting_down, shutdown_lock, teardown_log>>
    /\ UNCHANGED <<connVars, sendVars, msgVars, applied, serviceVars, enricherVars,
                   streamerVars, captureVars, orchVars, serverVars>>

\* self.streamer.stop(), in swap_device and in stop alike: `running = False`,
\* and disconnect() is scheduled if the engine's loop is running
ThreadStopsEngine(t) ==
    /\ http_threads[t].pc = "stop"
    /\ LET e == streamer_ref
           l == engines[e].loop
           live == l /= 0 /\ LoopRunning(l)
       IN /\ engines' = [engines EXCEPT ![e].running = FALSE]
          /\ loops' = IF live THEN [loops EXCEPT ![l].disc = TRUE] ELSE loops
          /\ http_threads' = [http_threads EXCEPT ![t].target = e,
                                                  ![t].pc = "stop_loop"]
    /\ UNCHANGED <<streamer_ref, shutting_down, shutdown_lock, teardown_log>>
    /\ UNCHANGED <<connVars, sendVars, msgVars, applied, serviceVars, enricherVars,
                   streamerVars, captureVars, orchVars, serverVars>>

\* stop(), after future.result(timeout=2.0) returned or timed out: loop.stop is
\* scheduled if the loop is running; the joins time out after 2 s each
ThreadStopsLoop(t) ==
    /\ http_threads[t].pc = "stop_loop"
    /\ LET l == engines[http_threads[t].target].loop
           live == l /= 0 /\ LoopRunning(l)
       IN loops' = IF live THEN [loops EXCEPT ![l].stop = TRUE] ELSE loops
    /\ http_threads' = [http_threads EXCEPT ![t].pc =
                            IF http_threads[t].kind = "swap" THEN "create" ELSE "done"]
    /\ UNCHANGED <<engines, streamer_ref, shutting_down, shutdown_lock, teardown_log>>
    /\ UNCHANGED <<connVars, sendVars, msgVars, applied, serviceVars, enricherVars,
                   streamerVars, captureVars, orchVars, serverVars>>

\* swap_device: self.streamer = DesktopAudioStreamer(...)
SwapCreates(t) ==
    /\ http_threads[t].pc = "create"
    /\ engines' = Append(engines, [running |-> FALSE, loop |-> 0])
    /\ streamer_ref' = Len(engines) + 1
    /\ http_threads' = [http_threads EXCEPT ![t].pc = "start"]
    /\ UNCHANGED <<loops, shutting_down, shutdown_lock, teardown_log>>
    /\ UNCHANGED <<connVars, sendVars, msgVars, applied, serviceVars, enricherVars,
                   streamerVars, captureVars, orchVars, serverVars>>

\* swap_device: self.streamer.start(), on whatever self.streamer is by now
SwapStarts(t) ==
    /\ http_threads[t].pc = "start"
    /\ EngineStart(streamer_ref)
    /\ http_threads' = [http_threads EXCEPT ![t].pc = "done"]
    /\ UNCHANGED <<streamer_ref, shutting_down, shutdown_lock, teardown_log>>
    /\ UNCHANGED <<connVars, sendVars, msgVars, applied, serviceVars, enricherVars,
                   streamerVars, captureVars, orchVars, serverVars>>

NextSwap ==
    \/ RunStartsStreamer
    \/ ShutdownFlag
    \/ SwapBegins
    \/ \E l \in 1..Len(loops) : NetBegin(l)
    \/ \E l \in 1..Len(loops) : NetBound(l)
    \/ \E l \in 1..Len(loops) : NetSessionUpdate(l)
    \/ \E l \in 1..Len(loops) : NetBreaks(l)
    \/ \E l \in 1..Len(loops) : NetClosed(l)
    \/ \E l \in 1..Len(loops) : LoopRunsDisconnect(l)
    \/ \E l \in 1..Len(loops) : LoopRunsStop(l)
    \/ \E l \in 1..Len(loops) : LoopRunsSend(l)
    \/ \E t \in 1..Len(http_threads) : ThreadStopsEngine(t)
    \/ \E t \in 1..Len(http_threads) : ThreadStopsLoop(t)
    \/ \E t \in 1..Len(http_threads) : SwapCreates(t)
    \/ \E t \in 1..Len(http_threads) : SwapStarts(t)

SpecSwap == Init /\ [][NextSwap]_vars

\* The connect() calls that hold an open connection
ActiveConnections == {l \in 1..Len(loops) : loops[l].conn \in {"bound", "loop"}
                                            /\ loops[l].sock = "open"}

\* C11: at most one connect() holds an open connection at any time, whatever
\* the order of streamer start, stop and device hot-swap.
AtMostOneActiveConnection == Cardinality(ActiveConnections) <= 1

\* The thread running StreamAudioService.stop has finished
ShutdownCompleted == \E t \in 1..Len(http_threads) :
                        http_threads[t].kind = "shutdown" /\ http_threads[t].pc = "done"

\* Every swap_device call made so far has returned, and no stop() it made has
\* anything left to run on a loop
SwapsCompleted ==
    /\ http_threads /= <<>>
    /\ \A t \in 1..Len(http_threads) :
          http_threads[t].kind = "swap" /\ http_threads[t].pc = "done"
    /\ \A l \in 1..Len(loops) : ~loops[l].disc /\ ~loops[l].stop

\* C17: once shutdown has completed no capture engine is running, whatever way
\* stop() and swap_device() interleave.
NoEngineAfterShutdown ==
    ShutdownCompleted => \A e \in 1..Len(engines) : ~engines[e].running

\* C18: once every swap_device call has returned, exactly one engine is running,
\* it is the one self.streamer refers to, and the network loop of every other
\* engine has ended.
OneEngineAfterSwaps ==
    SwapsCompleted =>
        /\ {e \in 1..Len(engines) : engines[e].running} = {streamer_ref}
        /\ \A l \in 1..Len(loops) :
              loops[l].engine /= streamer_ref => loops[l].state = "ended"

\* The connections established so far
Connections == {l \in 1..Len(loops) : loops[l].sock /= "none"}

\* C12: on every connection the first outbound message is session.update, it is
\* sent once, and a connection whose connect() has reached its message loop has
\* got it.
SessionUpdateFirstAndOnce ==
    \A l \in Connections :
        /\ loops[l].wire /= <<>> => loops[l].wire[1] = "session.update"
        /\ Len(SelectSeq(loops[l].wire, LAMBDA m : m = "session.update")) <= 1
        /\ loops[l].conn \in {"loop", "returned"} =>
               Len(SelectSeq(loops[l].wire, LAMBDA m : m = "session.update")) = 1

NextGate ==
    \/ HubStart
    \/ WsServerStart
    \/ EnricherStart
    \/ StreamerStart
    \/ ProcOpenStream
    \/ ConnectStart
    \/ ConnectEstablished
    \/ CallbackEnter
    \/ CallbackPut
    \/ CallbackEvict
    \/ CallbackPutAgain
    \/ \E data \in BlockData : DrainGet(data)
    \/ ProcSendStep
    \/ ProcIdleStep
    \/ StreamerStop
    \/ ProcExit

SpecGate == Init /\ [][NextGate]_vars

\* The loudness of a chunk of n samples v, none of which clips, is at least
\* -50 dB: with the mean removed and the gain of 1.5 applied, the mean square
\* (9/4) * (n * sum(v^2) - sum(v)^2) / n^2 is at least 2^30 / 10^5 (both sides
\* times 12500 n^2)
LoudEnough(v) ==
    28125 * (Len(v) * Sum([i \in 1..Len(v) |-> v[i] * v[i]]) - Sum(v) * Sum(v))
        >= 134217728 * Len(v) * Len(v)

\* C13: a chunk is handed to the session client only if its loudness after DC
\* removal, gain and clipping is at least -50 dB; a chunk below it is not sent,
\* and either way the chunk is cut off the accumulation buffer, whose remainder
\* is all that is examined later.
LoudnessGate ==
    [][LET to_send == SubSeq(audio_buf, 1, min_send_samples)
       IN /\ sends' /= sends =>
                /\ gate_log' /= gate_log
                /\ LoudEnough(to_send)
                /\ sends' = Append(sends, [pc |-> "scheduled", len |-> SendChunkBytes,
                                           closing_seen |-> "no"])
          /\ gate_log' /= gate_log =>
                /\ gate_log' = Append(gate_log, [chunk |-> to_send, sent |-> sends' /= sends])
                /\ audio_buf' = SubSeq(audio_buf, min_send_samples + 1, Len(audio_buf))
                /\ ~LoudEnough(to_send) => sends' = sends
                /\ LoudEnough(to_send) /\ conn_pc /= "idle" => sends' /= sends]_vars

\* A chunk just below the threshold was dropped and a chunk just above it sent
QuietDroppedLoudSent ==
    /\ \E i \in 1..Len(gate_log) : gate_log[i] = [chunk |-> <<-69, 69>>, sent |-> FALSE]
    /\ \E i \in 1..Len(gate_log) : gate_log[i] = [chunk |-> <<-70, 69>>, sent |-> TRUE]

NextRetry ==
    \/ HubStart
    \/ WsServerStart
    \/ EnricherStart
    \/ StreamerStart
    \/ ProcOpenStream
    \/ ProcStreamFails
    \/ ProcBackoffEnds
    \/ ConnectStart
    \/ ConnectEstablished
    \/ CallbackEnter
    \/ CallbackPut
    \/ StreamerStop
    \/ StopProceed
    \/ StopClear
    \/ ProcExit

SpecRetry == Init /\ [][NextRetry]_vars

\* The process worker gave up: _run_stream failed max_retry times
GaveUp == proc_pc = "ended" /\ retry = max_retry

\* C14: _run_stream is attempted at most five times, and when the last attempt
\* has failed the orchestrator is told of the fatal failure: an error reaches
\* its outbound events.
RetriesBoundedAndFailureReported ==
    /\ attempts <= max_retry
    /\ GaveUp => \E i \in 1..Len(message_queue) : message_queue[i].type = "error"

NextLifecycle ==
    \/ HubStart
    \/ WsServerStart
    \/ EnricherStart
    \/ StreamerStart
    \/ ProcOpenStream
    \/ ConnectStart
    \/ ConnectEstablished
    \/ CallbackEnter
    \/ CallbackPut
    \/ StreamerStop
    \/ StreamerStopRaises
    \/ DisconnectStart
    \/ DisconnectFinish
    \/ ProcExit
    \/ StopProceed
    \/ StopClear
    \/ \E raised \in BOOLEAN : EnricherStop(raised)
    \/ \E raised \in BOOLEAN : WsServerStop(raised)
    \/ HubStop

SpecLifecycle == Init /\ [][NextLifecycle]_vars

\* enricher.stop() was called
EnricherStopped == enricher_threads /= <<>> /\ ~enricher_running

\* C19: the components start in the order hub client, broadcast server,
\* enrichment queue, capture engine, and the session connect is made only once
\* the capture engine was started; they stop in the order capture engine,
\* enrichment queue, broadcast server, hub loop.
StartAndStopInOrder ==
    /\ ws_server_state /= "none" => hub_state /= "none"
    /\ enricher_threads /= <<>> => ws_server_state /= "none"
    /\ proc_pc /= "none" => enricher_threads /= <<>>
    /\ conn_pc /= "idle" => proc_pc /= "none"
    /\ EnricherStopped => ~streamer_running /\ stop_pc \in {"done", "raised"}
    /\ ws_server_state = "stopped" => EnricherStopped
    /\ hub_state = "stopped" => ws_server_state = "stopped"

\* Everything was started, the session was connected, and everything was stopped
StartedConnectedStopped ==
    /\ hub_state = "stopped"
    /\ wire /= <<>>
    /\ stop_raised = {}

\* C20: stop() never lets the failure of a step out, and when it returns every
\* step was taken, whichever of them raised.
StopIsBestEffort ==
    /\ svc_stop_pc /= "raised"
    /\ svc_stop_pc = "returned" =>
          /\ ~streamer_running
          /\ EnricherStopped
          /\ ws_server_state = "stopped"
          /\ hub_state = "stopped"

\* stop() returned although each of its guarded steps raised
ReturnedThoughAllRaised ==
    /\ svc_stop_pc = "returned"
    /\ stop_raised = {"streamer", "enricher", "ws_server"}

\* ----------------------------------------------------------- broadcast server

\* _handler, lines 51-58: the client is added to connected_clients and the
\* greeting is written to it, before the handler is first suspended. (The
\* clients of the model send no ping, so the handler has no pong to write.)
HandlerNoGreeting == <<>>
HandlerGreeting == <<[type |-> "connection_established", k |-> 0]>>

HandlerEnter(c) ==
    /\ ws_server_state = "started"
    /\ client_conns[c] = "none"
    /\ \A b \in 1..(c - 1) : client_conns[b] /= "none"   \* clients are numbered as they connect
    /\ client_conns' = [client_conns EXCEPT ![c] = "open"]
    /\ connected_clients' = connected_clients \cup {c}
    /\ delivered' = [delivered EXCEPT ![c] = @ \o HandlerGreeting]
    /\ joined' = [joined EXCEPT ![c] = Len(fanned)]
    /\ UNCHANGED <<fanouts, fanned, hb_slept>>
    /\ UNCHANGED <<connVars, sendVars, msgVars, applied, serviceVars, enricherVars,
                   streamerVars, captureVars, orchVars, swapVars>>

\* The client's connection closes
ClientCloses(c) ==
    /\ client_conns[c] = "open"
    /\ client_conns' = [client_conns EXCEPT ![c] = "closed"]
    /\ UNCHANGED <<connected_clients, delivered, fanouts, fanned, joined, hb_slept>>
    /\ UNCHANGED <<connVars, sendVars, msgVars, applied, serviceVars, enricherVars,
                   streamerVars, captureVars, orchVars, swapVars>>

\* _handler, lines 66-69: the `async for` ends, `finally: discard`
HandlerExit(c) ==
    /\ ws_server_state = "started"
    /\ client_conns[c] = "closed"
    /\ c \in connected_clients
    /\ connected_clients' = connected_clients \ {c}
    /\ UNCHANGED <<client_conns, delivered, fanouts, fanned, joined, hb_slept>>
    /\ UNCHANGED <<connVars, sendVars, msgVars, applied, serviceVars, enricherVars,
                   streamerVars, captureVars, orchVars, swapVars>>

\* _do_broadcast, lines 89-93, called with a message: it returns if there are
\* no clients, else it copies the clients to send to
StartFanout(slot, type, id) ==
    /\ fanouts[slot].k = 0
    /\ fanned' = Append(fanned, [type |-> type, id |-> id, copy |-> connected_clients,
                                 done |-> connected_clients = {}])
    /\ fanouts' = [fanouts EXCEPT ![slot] =
                      IF connected_clients = {} THEN NoFanout
                      ELSE [k |-> Len(fanned) + 1, targets |-> connected_clients,
                            dead |-> {}]]

\* _queue_processor, line 75: message_queue.get_nowait() on a queue that is not empty
GetNewest(q) == [event |-> q[Len(q)], rest |-> SubSeq(q, 1, Len(q) - 1)]
GetNowait(q) == [event |-> Head(q), rest |-> Tail(q)]

\* _queue_processor, lines 73-77: get_nowait and _do_broadcast
QueueProcessorGet ==
    /\ ws_server_state = "started"
    /\ message_queue /= <<>>
    /\ StartFanout("queue", GetNowait(message_queue).event.type, GetNowait(message_queue).event.id)
    /\ message_queue' = GetNowait(message_queue).rest
    /\ UNCHANGED <<whisper_count, whisper_call, connected_clients, client_conns, delivered, joined, hb_slept>>
    /\ UNCHANGED <<connVars, sendVars, msgVars, applied, enricherVars,
                   streamerVars, captureVars, orchVars, swapVars>>

\* The heartbeats fanned out so far
Heartbeats == SelectSeq(fanned, LAMBDA f : f.type = "heartbeat")

\* _heartbeat, line 85: asyncio.sleep(5), in tenths of a second
heartbeat_interval == 50

\* _heartbeat, line 85: the sleep is over, 5 s after it began
HeartbeatWakes ==
    /\ ws_server_state = "started"
    /\ fanouts["heartbeat"].k = 0
    /\ hb_slept < heartbeat_interval
    /\ hb_slept' = heartbeat_interval
    /\ UNCHANGED <<connected_clients, client_conns, delivered, fanouts, fanned, joined>>
    /\ UNCHANGED <<connVars, sendVars, msgVars, applied, serviceVars, enricherVars,
                   streamerVars, captureVars, orchVars, swapVars>>

\* _heartbeat, line 86: if self.connected_clients
HeartbeatDueAlways(clients) == TRUE
HeartbeatDue(clients) == clients /= {}

\* _heartbeat, lines 86-87: after the sleep, with clients, the heartbeat is broadcast
HeartbeatStart ==
    /\ ws_server_state = "started"
    /\ hb_slept = heartbeat_interval
    /\ HeartbeatDue(connected_clients)
    /\ Len(Heartbeats) < MaxHeartbeats
    /\ StartFanout("heartbeat", "heartbeat", 0)
    /\ UNCHANGED <<connected_clients, client_conns, delivered, joined, hb_slept>>
    /\ UNCHANGED <<connVars, sendVars, msgVars, applied, serviceVars, enricherVars,
                   streamerVars, captureVars, orchVars, swapVars>>

\* _heartbeat, lines 84-86: after the sleep, without clients, the next sleep begins
HeartbeatSkips ==
    /\ ws_server_state = "started"
    /\ fanouts["heartbeat"].k = 0
    /\ hb_slept = heartbeat_interval
    /\ ~HeartbeatDue(connected_clients)
    /\ hb_slept' = 0
    /\ UNCHANGED <<connected_clients, client_conns, delivered, fanouts, fanned, joined>>
    /\ UNCHANGED <<connVars, sendVars, msgVars, applied, serviceVars, enricherVars,
                   streamerVars, captureVars, orchVars, swapVars>>

\* _do_broadcast, lines 99-100: the active set after a send of the pass; the
\* dead clients are discarded once the loop over the copy is over
ActiveAfterSendAtOnce(active, dead, last) == active \ dead
ActiveAfterSend(active, dead, last) == IF last THEN active \ dead ELSE active

\* _do_broadcast, lines 94-100: `await client.send(msg)` for the next client of
\* the copy; a send that raises marks the client dead, and after the last send
\* the dead clients are discarded
FanoutSend(slot, c) ==
    /\ ws_server_state = "started"
    /\ fanouts[slot].k /= 0
    /\ c \in fanouts[slot].targets
    /\ LET f == fanouts[slot]
           ok == client_conns[c] = "open"
           dead == IF ok THEN f.dead ELSE f.dead \cup {c}
           last == f.targets = {c}
       IN /\ delivered' = IF ok
                          THEN [delivered EXCEPT ![c] =
                                   Append(@, [type |-> fanned[f.k].type, k |-> f.k])]
                          ELSE delivered
          /\ fanouts' = [fanouts EXCEPT ![slot] =
                            IF last THEN NoFanout
                            ELSE [f EXCEPT !.targets = @ \ {c}, !.dead = dead]]
          /\ fanned' = IF last THEN [fanned EXCEPT ![f.k].done = TRUE] ELSE fanned
          /\ connected_clients' = ActiveAfterSend(connected_clients, dead, last)
          /\ hb_slept' = IF last /\ slot = "heartbeat" THEN 0 ELSE hb_slept
    /\ UNCHANGED <<client_conns, joined>>
    /\ UNCHANGED <<connVars, sendVars, msgVars, applied, serviceVars, enricherVars,
                   streamerVars, captureVars, orchVars, swapVars>>

\* An error of the session, which the service broadcasts
RateError == Msg("error", <<>>, <<"r", "a", "t", "e">>)

NextServer ==
    \/ HubStart
    \/ WsServerStart
    \/ EnricherStart
    \/ StreamerStart
    \/ ConnectStart
    \/ ConnectEstablished
    \/ handled.n < MaxMessages /\ HandleMessage(RateError)
    \/ \E c \in 1..MaxClients : HandlerEnter(c)
    \/ \E c \in 1..MaxClients : ClientCloses(c)
    \/ \E c \in 1..MaxClients : HandlerExit(c)
    \/ QueueProcessorGet
    \/ HeartbeatWakes
    \/ HeartbeatStart
    \/ HeartbeatSkips
    \/ \E slot \in {"queue", "heartbeat"}, c \in 1..MaxClients : FanoutSend(slot, c)

SpecServer == Init /\ [][NextServer]_vars

\* The _do_broadcast calls whose message was written to client c
FannedTo(c) == {delivered[c][i].k : i \in 1..Len(delivered[c])} \ {0}

\* C15: the first message a client gets is connection_established, and it gets
\* it once; it gets no message of a _do_broadcast call made before it
\* connected; and it gets the message of every call made after, once the call
\* is through and the client is still connected.
LateJoinerGetsGreetingThenEvents ==
    \A c \in 1..MaxClients :
        /\ delivered[c] /= <<>> =>
              /\ delivered[c][1].type = "connection_established"
              /\ \A i \in 2..Len(delivered[c]) :
                    delivered[c][i].type /= "connection_established"
        /\ \A k \in FannedTo(c) : k > joined[c]
        /\ client_conns[c] = "open" =>
              \A k \in (joined[c] + 1)..Len(fanned) : fanned[k].done => k \in FannedTo(c)

\* A client that connected after a broadcast was through has got the greeting
\* and then a later event
JoinedLateAndServed ==
    \E c \in 1..MaxClients :
        /\ joined[c] >= 1
        /\ fanned[1].done
        /\ client_conns[c] = "open"
        /\ Len(delivered[c]) >= 2
        /\ delivered[c][2].type = "error"

\* C16: the outbound queue has a capacity and never holds more events than that.
OutboundQueueBounded ==
    message_queue /= <<>> =>
        outbound_maxsize > 0 /\ Len(message_queue) <= outbound_maxsize

\* ---------------------------------------------------------------- resampling
\* _resample as a function of the array's length and the two rates.

\* _resample, lines 125-128: the length of the returned array. The argument
\* comes back as it is for equal rates; else signal.resample returns
\* n = int(len(audio) * target_sr / orig_sr) samples, the quotient of two
\* positive numbers, which int() rounds down
ResampleLenPlusOne(len, orig_sr, target_sr) ==
    IF orig_sr = target_sr THEN len ELSE (len * target_sr) \div orig_sr + 1
ResampleLen(len, orig_sr, target_sr) ==
    IF orig_sr = target_sr THEN len ELSE (len * target_sr) \div orig_sr

\* self._resample(audio, orig_sr, target_sr) on an array of len samples
ApplyResample(len, orig_sr, target_sr) ==
    /\ applied = NoApplication
    /\ applied' = [fn |-> "_resample", len |-> len, orig_sr |-> orig_sr,
                   target_sr |-> target_sr,
                   n |-> ResampleLen(len, orig_sr, target_sr), back |-> -1]
    /\ UNCHANGED <<connVars, sendVars, msgVars, serviceVars, enricherVars, streamerVars>>
    /\ UNCHANGED <<captureVars, orchVars, serverVars, swapVars>>

\* self._resample(resampled, target_sr, orig_sr) on what the first call returned
ApplyResampleBack ==
    /\ applied.fn = "_resample"
    /\ applied.back = -1
    /\ applied' = [applied EXCEPT !.back = ResampleLen(applied.n, applied.target_sr,
                                                        applied.orig_sr)]
    /\ UNCHANGED <<connVars, sendVars, msgVars, serviceVars, enricherVars, streamerVars>>
    /\ UNCHANGED <<captureVars, orchVars, serverVars, swapVars>>

NextResample ==
    \/ \E len \in 0..MaxBlockLen, orig_sr \in 1..MaxRate, target_sr \in 1..MaxRate :
           ApplyResample(len, orig_sr, target_sr)
    \/ ApplyResampleBack

SpecResample == Init /\ [][NextResample]_vars

\* An array was resampled and the result resampled back
RoundTripDone == applied.fn = "_resample" /\ applied.back /= -1

CeilDiv(a, b) == (a + b - 1) \div b

BlockSamples(b) == [i \in 1..BlockSize |-> (b - 1) * BlockSize + i]

\* _run_stream, lines 177-183, on the block at the head of the capture queue
DrainBlock ==
    /\ queue /= <<>>
    /\ DrainGet(BlockSamples(Head(queue)))

NextBuffer ==
    \/ HubStart
    \/ WsServerStart
    \/ EnricherStart
    \/ StreamerStart
    \/ ProcOpenStream
    \/ CallbackEnter
    \/ CallbackPut
    \/ CallbackEvict
    \/ CallbackPutAgain
    \/ DrainBlock
    \/ ProcSendStep
    \/ ProcIdleStep
    \/ StreamerStop
    \/ ProcExit

SpecBuffer == Init /\ [][NextBuffer]_vars

RECURSIVE ChunksOf(_)
\* The chunks taken so far, one after the other
ChunksOf(log) == IF log = <<>> THEN <<>> ELSE log[1].chunk \o ChunksOf(Tail(log))

\* s is strictly increasing
Increasing(s) == \A i \in 1..Len(s) - 1 : s[i] < s[i + 1]

\* C24: a chunk is taken only when at least send_interval_s has passed since
\* the last take and the buffer holds at least min_send_samples; the chunk is
\* the first min_send_samples samples of the buffer and the buffer afterwards
\* is the rest of it in the same order (cut to its newest max_buf samples by the
\* cap that ends the iteration); a drained block's samples go to the end of the
\* buffer, the blocks in the order they were queued, so that the chunks taken
\* and the buffer hold the samples in the order the device delivered them.
ChunkExtraction ==
    /\ [][/\ gate_log' /= gate_log =>
                /\ since_send >= send_interval_s
                /\ Len(audio_buf) >= min_send_samples
                /\ Len(gate_log') = Len(gate_log) + 1
                /\ gate_log'[Len(gate_log')].chunk = SubSeq(audio_buf, 1, min_send_samples)
                /\ audio_buf' = LastN(SubSeq(audio_buf, min_send_samples + 1, Len(audio_buf)),
                                      max_buf)
                /\ since_send' = 0
          /\ drained' /= drained =>
                /\ drained' = Append(drained, Head(queue))
                /\ audio_buf' = audio_buf \o BlockSamples(Head(queue))]_vars
    /\ [](/\ Increasing(ChunksOf(gate_log) \o audio_buf)
          /\ Increasing(drained))

\* A chunk was taken out of a buffer that held more than the chunk, and the
\* samples of the next block were drained behind the rest
ChunkTakenRestKept ==
    /\ Len(gate_log) >= 1
    /\ gate_log[1].chunk = <<1, 2>>
    /\ audio_buf = <<3, 4, 5, 6>>

\* C25: whenever an iteration of the loop has ended, the buffer holds at most
\* max_buf samples, five seconds at the device's rate; an iteration that ends
\* with fewer samples than the buffer held after its take, if any, keeps the
\* newest max_buf of them in order.
BufferCapped ==
    /\ [](stream_pc = "sleep" => Len(audio_buf) <= max_buf)
    /\ [][stream_pc' = "sleep" =>
            LET after_take == IF gate_log' /= gate_log
                              THEN SubSeq(audio_buf, min_send_samples + 1, Len(audio_buf))
                              ELSE audio_buf
            IN audio_buf' = LastN(after_take, max_buf)]_vars

\* An iteration ended with the newest max_buf samples of a buffer that held
\* more: the two oldest of twelve are gone
OldestDropped ==
    /\ stream_pc = "sleep"
    /\ gate_log = <<>>
    /\ audio_buf = [i \in 1..max_buf |-> i + 2]

(***************************************************************************)
(* The history of enriched lines: a session of up to MaxLines transcripts, *)
(* the remote call answering each with a line of its own, or raising.      *)
(***************************************************************************)

\* The n-th transcript of the session; no two in a row are duplicates
UtteranceText(n) == IF n % 2 = 1 THEN <<"a", "b">> ELSE <<"c", "c">>

\* The content the remote call returns for an item: a line of its own, padded
LineFor(item) == <<" ", "L">> \o Str(item.id) \o <<" ">>

NextHistory ==
    \/ HubStart
    \/ WsServerStart
    \/ EnricherStart
    \/ StreamerStart
    \/ ConnectStart
    \/ ConnectEstablished
    \/ /\ handled.n < MaxLines
       /\ Len(enricher_queue) < MaxPending
       /\ HandleMessage(Completed(UtteranceText(handled.n + 1)))
    \/ \E w \in 1..Len(enricher_threads) : WorkerCheck(w)
    \/ \E w \in 1..Len(enricher_threads) : WorkerTake(w)
    \/ \E w \in 1..Len(enricher_threads), raised \in BOOLEAN :
          /\ enricher_threads[w].pc = "calling"
          /\ WorkerRemoteReturns(w, IF raised THEN Raised
                                    ELSE Returned(LineFor(enricher_threads[w].item)))

SpecHistory == Init /\ [][NextHistory]_vars

\* C28: the history never holds more than max_history = 8 lines; a remote call
\* that returns appends its line, and the oldest line goes when that makes
\* nine; a call that raises leaves the history alone; and the prompt built for
\* an item holds the last up to 8 lines of the history, which is all of it.
HistoryWindow ==
    /\ [](Len(recent_transcripts) <= 8)
    /\ [][\A w \in Calling :
            enricher_threads'[w].pc /= "calling" =>
                LET item == enricher_threads[w].item
                IN  IF item.id \in remote_failed'
                    THEN recent_transcripts' = recent_transcripts
                    ELSE recent_transcripts' =
                            LastN(Append(recent_transcripts, Strip(LineFor(item))), 8)]_vars
    /\ [][\A w \in 1..Len(enricher_threads) :
            w \notin Calling /\ enricher_threads'[w].pc = "calling" =>
                enricher_threads'[w].history = LastN(recent_transcripts, 8)]_vars

(***************************************************************************)
(* The speaker registry: a session whose remote calls answer with lines    *)
(* that name speakers, or raise.                                           *)
(***************************************************************************)

\* "[0:01] Man: a"
LineMan == <<"[", "0", ":", "0", "1", "]", " ", "M", "a", "n", ":", " ", "a">>

\* "[0:02] MAN (x): a"
LineManTone ==
    <<"[", "0", ":", "0", "2", "]", " ", "M", "A", "N", " ", "(", "x", ")", ":", " ", "a">>

\* "[0:03] [x] Bob: a"
LineBob ==
    <<"[", "0", ":", "0", "3", "]", " ", "[", "x", "]", " ", "B", "o", "b", ":", " ", "a">>

\* "[0:04] (x): Man: a"
LineToneFirst ==
    <<"[", "0", ":", "0", "4", "]", " ", "(", "x", ")", ":", " ", "M", "a", "n", ":", " ", "a">>

\* The lines the remote call answers with; the last has no speaker
SpeakerLines == {LineMan, LineManTone, LineBob, LineToneFirst, <<"a">>}

SpeakerOutcomes == {Raised} \cup {Returned(line) : line \in SpeakerLines}

NextSpeakers ==
    \/ HubStart
    \/ WsServerStart
    \/ EnricherStart
    \/ StreamerStart
    \/ ConnectStart
    \/ ConnectEstablished
    \/ handled.n < MaxUtterances /\ HandleMessage(Completed(UtteranceText(handled.n + 1)))
    \/ \E w \in 1..Len(enricher_threads) : WorkerCheck(w)
    \/ \E w \in 1..Len(enricher_threads) : WorkerTake(w)
    \/ \E w \in 1..Len(enricher_threads), outcome \in SpeakerOutcomes :
          WorkerRemoteReturns(w, outcome)

SpecSpeakers == Init /\ [][NextSpeakers]_vars

\* C29: the registry only grows: no step removes a key or changes the label a
\* key is mapped to, so the label first seen for a lowercase key stays; every
\* key is the lowercase form of its label; and a remote call that raised
\* changes neither the registry nor the history.
RegistryAppendOnly ==
    /\ [][/\ DOMAIN known_speakers \subseteq DOMAIN known_speakers'
          /\ \A key \in DOMAIN known_speakers : known_speakers'[key] = known_speakers[key]
          /\ remote_failed' /= remote_failed =>
                /\ known_speakers' = known_speakers
                /\ recent_transcripts' = recent_transcripts]_vars
    /\ [](\A key \in DOMAIN known_speakers : key = Lower(known_speakers[key]))

\* "Man" was registered by the first line, and the second line, of "MAN", is in
\* the history without having changed the label
FirstLabelKept ==
    /\ DOMAIN known_speakers = {<<"m", "a", "n">>}
    /\ known_speakers[<<"m", "a", "n">>] = <<"M", "a", "n">>
    /\ recent_transcripts = <<LineMan, LineManTone>>

(***************************************************************************)
(* One pass of _do_broadcast over several clients.                         *)
(***************************************************************************)

NextFanout ==
    \/ HubStart
    \/ WsServerStart
    \/ EnricherStart
    \/ StreamerStart
    \/ ConnectStart
    \/ ConnectEstablished
    \/ handled.n < MaxPassEvents /\ HandleMessage(RateError)
    \/ \E c \in 1..MaxPassClients : HandlerEnter(c)
    \/ \E c \in 1..MaxPassClients : ClientCloses(c)
    \/ \E c \in 1..MaxPassClients : HandlerExit(c)
    \/ QueueProcessorGet
    \/ \E c \in 1..MaxPassClients : FanoutSend("queue", c)

SpecFanout == Init /\ [][NextFanout]_vars

\* How often the message of the _do_broadcast call k was written to client c
TimesSent(c, k) == Cardinality({i \in 1..Len(delivered[c]) : delivered[c][i].k = k})

\* C26: a pass starts on a copy of the active set; every step of the pass is a
\* send attempt to one client that is still to be served, whether or not an
\* earlier send of the pass failed, and the pass ends only with the attempt to
\* the last of them; no attempt but the last changes the active set, and the
\* last takes out of it exactly the clients whose send failed; the message is
\* written once to a client whose send succeeds, and to nobody twice.
FanoutWithFailures ==
    /\ [][\A slot \in {"queue", "heartbeat"} :
            LET f == fanouts[slot]
                g == fanouts'[slot]
            IN  /\ f.k = 0 /\ g.k /= 0 =>
                      /\ g.targets = connected_clients
                      /\ g.dead = {}
                      /\ fanned'[g.k].copy = connected_clients
                /\ f.k /= 0 /\ g /= f =>
                      \E c \in f.targets :
                         LET failed == client_conns[c] /= "open"
                             dead == IF failed THEN f.dead \cup {c} ELSE f.dead
                         IN  /\ delivered'[c] =
                                   IF failed THEN delivered[c]
                                   ELSE Append(delivered[c],
                                               [type |-> fanned[f.k].type, k |-> f.k])
                             /\ \A b \in Clients \ {c} : delivered'[b] = delivered[b]
                             /\ IF f.targets = {c}
                                THEN /\ g = NoFanout
                                     /\ fanned'[f.k].done
                                     /\ connected_clients' = connected_clients \ dead
                                ELSE /\ g = [k |-> f.k, targets |-> f.targets \ {c},
                                             dead |-> dead]
                                     /\ connected_clients' = connected_clients]_vars
    /\ [](\A k \in 1..Len(fanned), c \in Clients :
             /\ TimesSent(c, k) <= 1
             /\ TimesSent(c, k) = 1 => c \in fanned[k].copy
             /\ fanned[k].done /\ c \in fanned[k].copy /\ client_conns[c] = "open" =>
                   TimesSent(c, k) = 1)

\* A pass over two clients is through: the send to client 1 failed and client
\* 1 is out of the active set, and client 2 has the message and is still in it
OneFailedOtherServed ==
    \E k \in 1..Len(fanned) :
        /\ fanned[k].done
        /\ fanned[k].copy = {1, 2}
        /\ TimesSent(1, k) = 0
        /\ TimesSent(2, k) = 1
        /\ connected_clients = {2}

(***************************************************************************)
(* The order of the broadcast: transcripts put on the queue, numbered as   *)
(* they are put, and the heartbeat next to them.                           *)
(***************************************************************************)

NextOrder ==
    \/ HubStart
    \/ WsServerStart
    \/ EnricherStart
    \/ StreamerStart
    \/ ConnectStart
    \/ ConnectEstablished
    \/ handled.n < MaxUtterances /\ HandleMessage(Completed(UtteranceText(handled.n + 1)))
    \/ \E c \in 1..MaxClients : HandlerEnter(c)
    \/ \E c \in 1..MaxClients : ClientCloses(c)
    \/ \E c \in 1..MaxClients : HandlerExit(c)
    \/ QueueProcessorGet
    \/ HeartbeatWakes
    \/ HeartbeatStart
    \/ HeartbeatSkips
    \/ \E slot \in {"queue", "heartbeat"}, c \in 1..MaxClients : FanoutSend(slot, c)

SpecOrder == Init /\ [][NextOrder]_vars

\* The _do_broadcast calls made by _queue_processor, in the order they were made
QueueFanned == SelectSeq(fanned, LAMBDA f : f.type /= "heartbeat")

\* The ids of the queued events written to client c, in the order they were written
QueuedIdsTo(c) ==
    LET got == SelectSeq(delivered[c], LAMBDA d : d.k /= 0 /\ d.type /= "heartbeat")
    IN  [i \in 1..Len(got) |-> fanned[got[i].k].id]

\* C27: the events are taken off the broadcast queue in the order they were put
\* on it, none is taken before the fan-out of the one before is through, and
\* every client gets the queued events it gets in the order they were put on
\* the queue, whatever the heartbeat sends in between.
BroadcastInOrder ==
    /\ IdsOf(QueueFanned) \o IdsOf(message_queue) = [i \in 1..whisper_count |-> i]
    /\ \A i \in 1..Len(QueueFanned) - 1 : QueueFanned[i].done
    /\ \A c \in Clients : Increasing(QueuedIdsTo(c))

\* A client got the first transcript, then a heartbeat, then the second transcript
HeartbeatBetweenTranscripts ==
    /\ Len(delivered[1]) = 4
    /\ [i \in 1..4 |-> delivered[1][i].type] =
          <<"connection_established", "transcript_raw", "heartbeat", "transcript_raw">>

(***************************************************************************)
(* The heartbeat task next to the clients' handlers. The event loop runs   *)
(* every task that can go on, which is the fairness of the specification.  *)
(***************************************************************************)

NextHeartbeat ==
    \/ HubStart
    \/ WsServerStart
    \/ \E c \in 1..MaxPassClients : HandlerEnter(c)
    \/ \E c \in 1..MaxPassClients : ClientCloses(c)
    \/ \E c \in 1..MaxPassClients : HandlerExit(c)
    \/ HeartbeatWakes
    \/ HeartbeatStart
    \/ HeartbeatSkips
    \/ \E c \in 1..MaxPassClients : FanoutSend("heartbeat", c)

SpecHeartbeat ==
    /\ Init
    /\ [][NextHeartbeat]_vars
    /\ WF_vars(HubStart)
    /\ WF_vars(WsServerStart)
    /\ WF_vars(HeartbeatWakes)
    /\ WF_vars(HeartbeatStart)
    /\ WF_vars(HeartbeatSkips)
    /\ \A c \in 1..MaxPassClients : WF_vars(FanoutSend("heartbeat", c))

\* How many heartbeats were written to client c
HeartbeatsTo(c) == Len(SelectSeq(delivered[c], LAMBDA d : d.type = "heartbeat"))

InShutdown(kind) ==
    {t \in 1..Len(http_threads) :
        http_threads[t].kind = kind /\ http_threads[t].pc /= "done"}

\* The main thread runs run() unless a signal handler is running on it
MainThreadInRun == run_pc /= "exited" /\ InShutdown("signal") = {}

\* main._shutdown is entered while run() is in its loop: as the handler of
\* SIGTERM or SIGINT, or on a thread of its own for POST /shutdown
StopCalled(kind) ==
    /\ run_pc = "running"
    /\ Len(http_threads) < MaxRequests
    /\ kind = "signal" => InShutdown("signal") = {}
    /\ http_threads' = Append(http_threads, [kind |-> kind, target |-> 0, pc |-> "lock"])
    /\ UNCHANGED <<engines, loops, streamer_ref, shutting_down, shutdown_lock, teardown_log>>
    /\ UNCHANGED <<connVars, sendVars, msgVars, applied, serviceVars, enricherVars,
                   streamerVars, captureVars, orchVars, serverVars>>

\* threading.Lock.acquire, as `with self._shutdown_lock` calls it
LockFree(holder) == holder = 0

\* stop, lines 124-126: the lock is taken and the flag read; a caller that
\* finds the flag set returns, which releases the lock
StopEnters(t) ==
    /\ run_pc /= "exited"
    /\ http_threads[t].pc = "lock"
    /\ LockFree(shutdown_lock)
    /\ IF shutting_down
       THEN /\ http_threads' = [http_threads EXCEPT ![t].pc = "lost"]
            /\ UNCHANGED shutdown_lock
       ELSE /\ http_threads' = [http_threads EXCEPT ![t].pc = "set"]
            /\ shutdown_lock' = t
    /\ UNCHANGED <<engines, loops, streamer_ref, shutting_down, teardown_log>>
    /\ UNCHANGED <<connVars, sendVars, msgVars, applied, serviceVars, enricherVars,
                   streamerVars, captureVars, orchVars, serverVars>>

\* stop, line 127: the flag is set, and the `with` block ends
StopSetsFlag(t) ==
    /\ run_pc /= "exited"
    /\ http_threads[t].pc = "set"
    /\ shutting_down' = TRUE
    /\ shutdown_lock' = 0
    /\ http_threads' = [http_threads EXCEPT ![t].pc = StopSteps[1]]
    /\ UNCHANGED <<engines, loops, streamer_ref, teardown_log>>
    /\ UNCHANGED <<connVars, sendVars, msgVars, applied, serviceVars, enricherVars,
                   streamerVars, captureVars, orchVars, serverVars>>

\* stop, lines 129-143: the next component's stop() is called, which clears
\* the component's flag; the call returns or raises, and stop() goes on
StopTearsDown(t, raised) ==
    /\ run_pc /= "exited"
    /\ \E k \in 1..Len(StopSteps) : http_threads[t].pc = StopSteps[k]
    /\ LET step == http_threads[t].pc
       IN  /\ teardown_log' = Append(teardown_log, [step |-> step, by |-> t])
           /\ streamer_running' = IF step = "streamer" THEN FALSE ELSE streamer_running
           /\ enricher_running' = IF step = "enricher" THEN FALSE ELSE enricher_running
           /\ ws_server_state' = IF step = "ws_server" THEN "stopped" ELSE ws_server_state
           /\ hub_state' = IF step = "hub" THEN "stopped" ELSE hub_state
           /\ stop_raised' = IF raised /\ step /= "hub" THEN stop_raised \cup {step}
                                                        ELSE stop_raised
           /\ http_threads' = [http_threads EXCEPT
                                  ![t].pc = StepAfter(StopSteps, step, "returned")]
    /\ UNCHANGED <<run_pc, svc_stop_pc>>
    /\ UNCHANGED <<proc_pc, stop_pc, queue, cb, pushed, dropped, drained>>
    /\ UNCHANGED <<enricher_queue, enricher_threads, recent_transcripts, known_speakers, clock,
                   enqueued, remote_log, remote_failed>>
    /\ UNCHANGED <<engines, loops, streamer_ref, shutting_down, shutdown_lock>>
    /\ UNCHANGED <<connVars, sendVars, msgVars, applied, serviceVars, captureVars, serverVars>>

\* main._shutdown, line 28: sys.exit(0) once stop() has returned. On a daemon
\* thread it ends the thread; in the signal handler it ends the main thread,
\* and the process with it
ShutdownExits(t) ==
    /\ run_pc /= "exited"
    /\ http_threads[t].pc \in {"lost", "returned"}
    /\ http_threads' = [http_threads EXCEPT ![t].pc = "done"]
    /\ run_pc' = IF http_threads[t].kind = "signal" THEN "exited" ELSE run_pc
    /\ UNCHANGED <<hub_state, ws_server_state, svc_stop_pc, stop_raised>>
    /\ UNCHANGED <<engines, loops, streamer_ref, shutting_down, shutdown_lock, teardown_log>>
    /\ UNCHANGED <<connVars, sendVars, msgVars, applied, serviceVars, enricherVars,
                   streamerVars, captureVars, serverVars>>

\* run, lines 116-118: `while not self._shutting_down: time.sleep(0.5)` ends,
\* run() returns to main(), and main() returns: the process ends
RunReturns ==
    /\ run_pc = "running"
    /\ MainThreadInRun
    /\ shutting_down
    /\ run_pc' = "exited"
    /\ UNCHANGED <<hub_state, ws_server_state, svc_stop_pc, stop_raised>>
    /\ UNCHANGED <<connVars, sendVars, msgVars, applied, serviceVars, enricherVars,
                   streamerVars, captureVars, serverVars, swapVars>>

NextShutdown ==
    \/ HubStart
    \/ WsServerStart
    \/ EnricherStart
    \/ StreamerStart
    \/ \E kind \in {"signal", "http"} : StopCalled(kind)
    \/ \E t \in 1..Len(http_threads) : StopEnters(t)
    \/ \E t \in 1..Len(http_threads) : StopSetsFlag(t)
    \/ \E t \in 1..Len(http_threads), raised \in BOOLEAN : StopTearsDown(t, raised)
    \/ \E t \in 1..Len(http_threads) : ShutdownExits(t)
    \/ RunReturns

SpecShutdown == Init /\ [][NextShutdown]_vars

\* How often the teardown step was executed
TimesTornDown(step) ==
    Cardinality({i \in 1..Len(teardown_log) : teardown_log[i].step = step})

\* The calls of stop() that are over: the caller is past stop(), or the process is gone
StopCallsOver ==
    \/ run_pc = "exited"
    \/ \A t \in 1..Len(http_threads) : http_threads[t].pc \in {"lost", "returned", "done"}

\* No teardown step is executed twice, and all are executed by one caller
ShutdownAtMostOnce ==
    /\ \A k \in 1..Len(StopSteps) : TimesTornDown(StopSteps[k]) <= 1
    /\ \A i, j \in 1..Len(teardown_log) : teardown_log[i].by = teardown_log[j].by

\* C30: whatever the calls of stop(), no teardown step is executed twice; once
\* stop() was called and no call is in progress, each of the four steps has
\* been executed exactly once; and the steps are all executed by one caller,
\* every other caller having returned without touching a component.
ShutdownExactlyOnce ==
    /\ ShutdownAtMostOnce
    /\ http_threads /= <<>> /\ StopCallsOver =>
          \A k \in 1..Len(StopSteps) : TimesTornDown(StopSteps[k]) = 1

\* ------------------------------------------------------ the workers at stop()
\* The four components started by run() and stopped by stop(), each with its
\* worker loops: the capture engine with its process worker and its network
\* worker (the event loop of the hot-swap view), the enrichment worker, and the
\* broadcast server's queue processor and heartbeat.

\* StreamAudioService.run, line 113: DesktopAudioStreamer.start, lines 52-62:
\* `running`, the new loop, the network thread and the process thread
StreamerStartsWorkers ==
    /\ run_pc = "streamer"
    /\ proc_pc = "none"
    /\ streamer_running' = TRUE
    /\ proc_pc' = "starting"
    /\ run_pc' = StepAfter(RunSteps, "streamer", "running")
    /\ EngineStart(streamer_ref)
    /\ UNCHANGED <<streamer_ref, http_threads, shutting_down, shutdown_lock, teardown_log>>
    /\ UNCHANGED <<hub_state, ws_server_state, svc_stop_pc, stop_raised>>
    /\ UNCHANGED <<stop_pc, queue, cb, pushed, dropped, drained>>
    /\ UNCHANGED <<connVars, sendVars, msgVars, applied, serviceVars, enricherVars>>
    /\ UNCHANGED <<captureVars, serverVars>>

\* DesktopAudioStreamer.stop, lines 66-72: `running` is cleared, and
\* disconnect() is scheduled on the loop if the loop is running
StreamerStopsWorkers ==
    /\ svc_stop_pc = "idle"
    /\ stop_pc = "idle"
    /\ proc_pc /= "none"
    /\ streamer_running' = FALSE
    /\ stop_pc' = "disconnecting"
    /\ svc_stop_pc' = "streamer"
    /\ LET l == engines[streamer_ref].loop
       IN /\ engines' = [engines EXCEPT ![streamer_ref].running = FALSE]
          /\ loops' = IF LoopRunning(l) THEN [loops EXCEPT ![l].disc = TRUE] ELSE loops
    /\ UNCHANGED <<streamer_ref, http_threads, shutting_down, shutdown_lock, teardown_log>>
    /\ UNCHANGED <<run_pc, hub_state, ws_server_state, stop_raised>>
    /\ UNCHANGED <<proc_pc, queue, cb, pushed, dropped, drained>>
    /\ UNCHANGED <<connVars, sendVars, msgVars, applied, serviceVars, enricherVars>>
    /\ UNCHANGED <<captureVars, serverVars>>

\* stop, lines 73-83: future.result returns or times out, loop.stop is
\* scheduled if the loop is running, and the joins return or time out
StopSchedulesLoopStop ==
    /\ stop_pc = "disconnecting"
    /\ stop_pc' = "clearing"
    /\ LET l == engines[streamer_ref].loop
       IN loops' = IF LoopRunning(l) THEN [loops EXCEPT ![l].stop = TRUE] ELSE loops
    /\ UNCHANGED <<engines, streamer_ref, http_threads, shutting_down, shutdown_lock, teardown_log>>
    /\ UNCHANGED <<streamer_running, proc_pc, queue, cb, pushed, dropped, drained>>
    /\ UNCHANGED <<connVars, sendVars, msgVars, applied, serviceVars, enricherVars>>
    /\ UNCHANGED <<captureVars, orchVars, serverVars>>

\* connect()'s `async for` on loop l takes a transcription-completed message
\* whose text is emitted: _handle_message calls on_transcript
NetHandlesTranscript(l) ==
    /\ LoopRunning(l)
    /\ loops[l].conn = "loop"
    /\ loops[l].sock = "open"
    /\ ~closing
    /\ LET text == UtteranceText(whisper_count + 1)
       IN /\ audio_accumulated' = 0
          /\ last_transcript' = text
          /\ OnWhisperTranscript(text)
          /\ handled' = [n |-> handled.n + 1, msg |-> Completed(text),
                         prev_last |-> last_transcript,
                         mq_before |-> Len(message_queue),
                         on_transcript |-> <<text>>, on_error |-> <<>>]
    /\ UNCHANGED <<sends, wire>>
    /\ UNCHANGED <<enricher_running, enricher_threads, recent_transcripts, known_speakers,
                   clock, remote_log, remote_failed>>
    /\ UNCHANGED <<connVars, applied, streamerVars, captureVars, orchVars, serverVars, swapVars>>

\* The steps the threads, loops and tasks of the service take by themselves
ServiceSteps ==
    \/ HubStart
    \/ WsServerStart
    \/ EnricherStart
    \/ StreamerStartsWorkers
    \/ ProcOpenStream
    \/ ProcStreamFails
    \/ ProcBackoffEnds
    \/ ProcExit
    \/ \E l \in 1..Len(loops) : NetBegin(l)
    \/ \E l \in 1..Len(loops) : NetBound(l)
    \/ \E l \in 1..Len(loops) : NetSessionUpdate(l)
    \/ \E l \in 1..Len(loops) : NetBreaks(l)
    \/ \E l \in 1..Len(loops) : NetClosed(l)
    \/ \E l \in 1..Len(loops) : LoopRunsDisconnect(l)
    \/ \E l \in 1..Len(loops) : LoopRunsStop(l)
    \/ \E w \in 1..Len(enricher_threads) : WorkerCheck(w)
    \/ \E w \in 1..Len(enricher_threads) : WorkerTake(w)
    \/ \E w \in 1..Len(enricher_threads), raised \in BOOLEAN :
          /\ enricher_threads[w].pc = "calling"
          /\ WorkerRemoteReturns(w, IF raised THEN Raised
                                    ELSE Returned(LineFor(enricher_threads[w].item)))
    \/ QueueProcessorGet
    \/ HeartbeatWakes
    \/ HeartbeatSkips
    \/ StreamerStopsWorkers
    \/ StopSchedulesLoopStop
    \/ StopClear
    \/ \E raised \in BOOLEAN : EnricherStop(raised)
    \/ \E raised \in BOOLEAN : WsServerStop(raised)
    \/ HubStop

\* The session sends a transcript to a connect() that is listening
SessionSends ==
    \E l \in 1..Len(loops) : whisper_count < MaxStopTranscripts /\ NetHandlesTranscript(l)

NextStop ==
    \/ ServiceSteps
    \/ SessionSends

SpecStop == Init /\ [][NextStop]_vars

\* stop() has returned and nothing is left to run: no thread, no loop and no
\* task of the service can take a step unless the session sends a message
StoppedAndSettled == svc_stop_pc = "returned" /\ ~ENABLED ServiceSteps

\* The process worker, the enrichment worker and the server's two tasks are over
LocalWorkersEnded ==
    /\ proc_pc = "ended"
    /\ \A w \in 1..Len(enricher_threads) : enricher_threads[w].pc = "exit"
    /\ ws_server_state = "stopped"

\* The network worker is over: loop.run_forever() has returned
NetworkWorkersEnded == \A l \in 1..Len(loops) : loops[l].state = "ended"

\* Whatever the workers were at when stop() was called, the process worker, the
\* enrichment worker, the queue processor and the heartbeat have ended once
\* everything has settled
LocalWorkersEndAfterStop == StoppedAndSettled => LocalWorkersEnded

\* C21: once stop() was called on the components, every worker loop (capture
\* processing, network, enrichment, queue processor, heartbeat) ends, whatever
\* point of its start-up or of its loop it was at and whatever its pending
\* remote call returned: when stop() has returned and no step is left to take,
\* no worker is still there.
WorkersEndAfterStop ==
    StoppedAndSettled => LocalWorkersEnded /\ NetworkWorkersEnded

\* ------------------------------------------------- raw before enriched
\* _on_whisper_transcript runs on the network worker's loop while the
\* enrichment worker runs in its own thread: the worker can take a step between
\* any two things the callback does.

\* _on_whisper_transcript, lines 218-235: what it does with the transcript once
\* it has counted it and drawn its id, in order
WhisperStepsEnrichFirst == <<"enrich", "broadcast">>
WhisperSteps == <<"broadcast", "enrich">>

\* _on_whisper_transcript, lines 214-215, called by the session client with an
\* emitted text: the count and the fresh id
WhisperEnters(raw_text) ==
    /\ conn_pc = "loop"
    /\ sock = "open"
    /\ ~closing
    /\ whisper_call = NoCall
    /\ whisper_count' = whisper_count + 1
    /\ whisper_call' = [text |-> raw_text, id |-> whisper_count + 1, left |-> WhisperSteps]
    /\ UNCHANGED message_queue
    /\ UNCHANGED <<connVars, sendVars, msgVars, applied, enricherVars, streamerVars>>
    /\ UNCHANGED <<captureVars, orchVars, serverVars, swapVars>>

\* _on_whisper_transcript, lines 218-226 or 233-235: the next thing it does,
\* ws_server.broadcast of the raw event or enricher.enrich
WhisperStep ==
    /\ whisper_call /= NoCall
    /\ LET step == Head(whisper_call.left)
           raw  == [type |-> "transcript_raw", id |-> whisper_call.id,
                    text |-> whisper_call.text]
       IN /\ message_queue' = IF step = "broadcast" THEN Broadcast(message_queue, raw)
                              ELSE message_queue
          /\ enricher_queue' = IF step = "enrich"
                               THEN Enrich(enricher_queue, whisper_call.text,
                                           whisper_call.id, Elapsed)
                               ELSE enricher_queue
          /\ enqueued' = IF step = "enrich"
                         THEN Enrich(enqueued, whisper_call.text, whisper_call.id, Elapsed)
                         ELSE enqueued
    /\ whisper_call' = IF Tail(whisper_call.left) = <<>> THEN NoCall
                       ELSE [whisper_call EXCEPT !.left = Tail(@)]
    /\ UNCHANGED whisper_count
    /\ UNCHANGED <<enricher_running, enricher_threads, recent_transcripts, known_speakers,
                   clock, remote_log, remote_failed>>
    /\ UNCHANGED <<connVars, sendVars, msgVars, applied, streamerVars>>
    /\ UNCHANGED <<captureVars, orchVars, serverVars, swapVars>>

NextRawFirst ==
    \/ HubStart
    \/ WsServerStart
    \/ EnricherStart
    \/ StreamerStart
    \/ ConnectStart
    \/ ConnectEstablished
    \/ \E text \in PipelineTexts : whisper_count < MaxUtterances /\ WhisperEnters(text)
    \/ WhisperStep
    \/ \E w \in 1..Len(enricher_threads) : WorkerCheck(w)
    \/ \E w \in 1..Len(enricher_threads) : WorkerTake(w)
    \/ \E w \in 1..Len(enricher_threads), outcome \in RemoteOutcomes : WorkerRemoteReturns(w, outcome)

SpecRawFirst == Init /\ [][NextRawFirst]_vars

\* The raw event of transcript id is among the first n events put on the broadcast queue
RawAmong(id, n) ==
    \E i \in 1..n : message_queue[i].type = "transcript_raw" /\ message_queue[i].id = id

\* C31: the transcript_raw event of an utterance is on the broadcast queue
\* before the utterance is handed to the enrichment queue, with the utterance's
\* text and id; so every transcript_enriched event put on the broadcast queue
\* comes after the transcript_raw event of the same id, and it carries the id of
\* an utterance that was handed to the enrichment queue.
RawPrecedesEnriched ==
    /\ \A k \in 1..Len(enqueued) :
          \E i \in 1..Len(message_queue) :
              message_queue[i] = [type |-> "transcript_raw", id |-> enqueued[k].id,
                                  text |-> enqueued[k].text]
    /\ \A j \in 1..Len(message_queue) :
          message_queue[j].type = "transcript_enriched" =>
              /\ RawAmong(message_queue[j].id, j - 1)
              /\ \E k \in 1..Len(enqueued) : enqueued[k].id = message_queue[j].id

\* The worker enriched the first utterance while the callback was between the
\* broadcast and the hand-over of the second
EnrichedDuringCallback ==
    /\ whisper_call /= NoCall
    /\ whisper_call.id = 2
    /\ whisper_call.left = <<"enrich">>
    /\ [i \in 1..Len(message_queue) |-> <<message_queue[i].type, message_queue[i].id>>]
          = << <<"transcript_raw", 1>>, <<"transcript_raw", 2>>, <<"transcript_enriched", 1>> >>

\* ------------------------------------------------- the queue after stop()
\* DesktopAudioStreamer.stop against a device callback: stop() clears `running`,
\* joins the process thread for at most 2 s and then empties the queue; the
\* callback reads `running` once, at its entry.

\* _run_stream, line 175 and the end of the `with`: `while self.running` fails
\* and the stream is closed, which waits for the callback in progress
ProcClosesStream ==
    /\ cb.pc = "idle"
    /\ ProcExit

\* stop, lines 82-83: the process thread has ended, join returns (or the thread
\* is not alive and is not joined)
StopJoinReturns ==
    /\ proc_pc = "ended"
    /\ StopProceed

\* stop, lines 82-83: the process thread is still alive after 2.0 s, join
\* returns without it
StopJoinTimesOut ==
    /\ proc_pc /= "ended"
    /\ StopProceed

\* The steps of the engine, its callback and stop() but for the join
QuiesceSteps ==
    \/ HubStart
    \/ WsServerStart
    \/ EnricherStart
    \/ StreamerStart
    \/ ProcOpenStream
    \/ CallbackEnter
    \/ CallbackPut
    \/ CallbackEvict
    \/ CallbackPutAgain
    \/ \E data \in BlockData : DrainGet(data)
    \/ StreamerStop
    \/ ProcClosesStream
    \/ StopJoinReturns
    \/ StopClear

NextQuiesce ==
    \/ QuiesceSteps
    \/ StopJoinTimesOut

SpecQuiesce == Init /\ [][NextQuiesce]_vars

\* The behaviours in which the join of the process thread never times out
SpecQuiesceJoined == Init /\ [][QuiesceSteps]_vars

\* How often the volume callback was invoked
VolumeCalls == Len(SelectSeq(message_queue, LAMBDA e : e.type = "volume"))

\* C32: once DesktopAudioStreamer.stop() has returned, the inbound queue is
\* empty and stays empty, and the volume callback is not invoked again,
\* whatever a device callback that was in progress does.
QuietAfterStop ==
    /\ [](stop_pc = "done" => queue = <<>>)
    /\ [][stop_pc = "done" => VolumeCalls' = VolumeCalls]_vars

====
